---- MODULE Spec2Model ----
(***************************************************************************)
(* State-machine model of the monitoring engine (package monitor):         *)
(* Service.Start, TriggerNow, runOnce, runBatch, checkURL, Results and     *)
(* RemoveTaskState, together with the web handler that deletes a task and  *)
(* the event/performance tables of the repository.                         *)
(*                                                                         *)
(* Time is counted in whole seconds.  Critical sections under Service.mu   *)
(* contain no blocking call, so each of them is one atomic action.         *)
(***************************************************************************)
EXTENDS Integers, Sequences, FiniteSets, TLC

VARIABLES
    cfg,        \* config.Manager.cfg: Interval, AlertThreshold, AlertCooldown, Tasks
    now,        \* the wall clock, in seconds
    ctxDone,    \* the context passed to Start has been cancelled
    runMu,      \* Service.runMu: the process holding it, or NoProc
    pc,         \* position of the scheduler loop and of every runOnce goroutine
    loc,        \* locals of runOnce/runBatch of every process
    wakeAt,     \* deadline of the time.After timer of the scheduler loop
    results,    \* Service.results
    states,     \* Service.states: task id -> TaskState
    history,    \* Service.history: URL -> colour tags
    events,     \* repository table event_logs
    perf,       \* repository table performance_logs
    mails,      \* sendMail goroutines spawned so far
    log,        \* observation: one record per result evaluated by runBatch
    published,  \* observation: the last collection published and its task ids
    removed,    \* observation: ids removed since that publication
    fresh,      \* observation: ids removed and not evaluated since
    budget,     \* number of runOnce calls the environment still issues
    deletes,    \* number of deleteTaskHandler calls the environment still issues
    out,        \* the slice a caller of Results() holds
    storeOk,    \* the database of the repository accepts writes
    disk,       \* the configuration file of the Manager: its content, or none
    issued,     \* observation: the ids AddTask has returned, in order
    probes,     \* observation: what each checkURL call met, in order
    resetAt,    \* observation: Len(log) at the last Reset
    mu,         \* Service.mu: the goroutine that holds it for writing, its readers
    cpc         \* the callers of Results and RemoveTaskState: their position

vars == <<cfg, now, ctxDone, runMu, pc, loc, wakeAt, results, states, history,
          events, perf, mails, log, published, removed,
          fresh, budget, deletes, out, storeOk, disk, issued, probes, resetAt,
          mu, cpc>>

(* s.mu and its callers, which only the engine with its locks spelled out  *)
(* touches: elsewhere a critical section is one step                        *)
locks == <<mu, cpc>>

(* The variables only the configuration file, the probes and Reset touch *)
aux == <<disk, issued, probes, resetAt, locks>>

----------------------------------------------------------------------------
(* Bounds of the model *)

MaxTriggers == 1     \* runOnce goroutines of TriggerNow alive at a time
MaxSweeps == 2       \* runOnce calls in a run of Spec
MaxDeletes == 1      \* deleteTaskHandler calls in a run of Spec
SMSweeps == 5        \* sweeps in a run of SpecSM
HourSweeps == 7      \* sweeps in a run of SpecHour
HistSweeps == 6      \* sweeps in a run of SpecHist
CopySweeps == 2      \* sweeps in a run of SpecCopy
SetSweeps == 3       \* sweeps in a run of SpecSet
StaleSweeps == 3     \* runOnce calls in a run of SpecStale
StopSweeps == 2      \* runOnce calls in a run of SpecStop
SideSweeps == 2      \* sweeps in a run of SpecSide
RetrySweeps == 3     \* sweeps in a run of SpecRetry
StarSweeps == 2      \* runOnce calls in a run of SpecStar
ResetSweeps == 2     \* runOnce calls in a run of SpecReset
MaxAdds == 3         \* AddTask calls that succeed in a run of SpecIds
QueueTriggers == 2   \* runOnce goroutines of TriggerNow alive at a time in SpecQueue
QueueSweeps == 4     \* runOnce calls in a run of SpecQueue
ClampSweeps == 2     \* runOnce calls in a run of SpecClamp
ProbeSweeps == 2     \* sweeps in a run of SpecProbe
NameSweeps == 2      \* sweeps in a run of SpecName
TermSweeps == 2      \* runOnce calls in a run of SpecTerm
LockSweeps == 2      \* runOnce calls in a run of SpecLocks
LockCalls == 1       \* calls of Results, and of RemoveTaskState, in a run of SpecLocks
MaxDrift == 1        \* seconds that pass inside a round of runBatch, after a full ten

(* Program constants *)

HistoryCap == 10
DefaultInterval == 5
SlowMs == 800
Minute == 60
DefaultThreshold == 3
DefaultCooldown == 60

NoProc == -1
Sched == 0
Triggers == 1..MaxTriggers
Procs == {Sched} \cup Triggers

ZeroTime == -1      \* the zero time.Time of a fresh TaskState

AlertType == "down-alert"
RecoverType == "recovered"

----------------------------------------------------------------------------
(* Pure helpers *)

RECURSIVE SelectSeqBy(_, _)
SelectSeqBy(s, id) ==
    IF s = <<>> THEN <<>>
    ELSE IF Head(s).ID # id
         THEN <<Head(s)>> \o SelectSeqBy(Tail(s), id)
         ELSE SelectSeqBy(Tail(s), id)

Restrict(f, S) == [x \in S |-> f[x]]

----------------------------------------------------------------------------
(* model.TaskState{} as created lazily by runBatch *)

ZeroState == [ConsecutiveFails |-> 0, LastAlertTime |-> ZeroTime, IsDown |-> FALSE]

(* threshold <= 0 is replaced by 1 *)
EffThreshold(threshold) == IF threshold <= 0 THEN 1 ELSE threshold

(* A time.Duration is an int64 count of nanoseconds.  Its values do not fit *)
(* the integers of the checker, so a count of nanoseconds is written as     *)
(* minutes, seconds below 60 and nanoseconds below 10^9.                     *)
Dur(m, s, n) == [min |-> m, sec |-> s, ns |-> n]

(* 2^64 and 2^63 nanoseconds, and the largest Duration, 2^63 - 1 *)
TwoTo64 == Dur(307445734, 33, 709551616)
TwoTo63 == Dur(153722867, 16, 854775808)
MaxDuration == Dur(153722867, 16, 854775807)

(* a < b for two counts of nanoseconds *)
DurLess(a, b) ==
    \/ a.min < b.min
    \/ a.min = b.min /\ a.sec < b.sec
    \/ a.min = b.min /\ a.sec = b.sec /\ a.ns < b.ns

(* a - b for two counts of nanoseconds with a >= b *)
DurSub(a, b) ==
    LET n == a.ns - b.ns
        bs == IF n < 0 THEN 1 ELSE 0
        s == a.sec - b.sec - bs
        bm == IF s < 0 THEN 1 ELSE 0
    IN  Dur(a.min - b.min - bm, s + 60 * bm, n + 1000000000 * bs)

(* d modulo 2^64, the low 64 bits of a count of nanoseconds *)
RECURSIVE Low64(_)
Low64(d) == IF DurLess(d, TwoTo64) THEN d ELSE Low64(DurSub(d, TwoTo64))

(* time.Duration(n) * time.Minute: the product in int64, which wraps.  The  *)
(* result is a record: neg says that the int64 is negative, abs is its      *)
(* absolute value.                                                           *)
Minutes64(n) ==
    LET m == Low64(Dur(IF n < 0 THEN -n ELSE n, 0, 0))
        u == IF n < 0 /\ m # Dur(0, 0, 0) THEN DurSub(TwoTo64, m) ELSE m
    IN  IF DurLess(u, TwoTo63)
        THEN [neg |-> FALSE, abs |-> u]
        ELSE [neg |-> TRUE, abs |-> DurSub(TwoTo64, u)]

(* Variant of the cooldown clamp: a cooldown of at least one minute *)
EffCooldownMinute(cooldownMin) ==
    LET cooldown == Minutes64(cooldownMin)
    IN  IF cooldown.neg \/ cooldown.abs = Dur(0, 0, 0) THEN Dur(1, 0, 0) ELSE cooldown.abs

(* cooldown := time.Duration(cooldownMin) * time.Minute, negative values    *)
(* replaced by 0                                                             *)
EffCooldown(cooldownMin) ==
    LET cooldown == Minutes64(cooldownMin)
    IN  IF cooldown.neg THEN Dur(0, 0, 0) ELSE cooldown.abs

(* The Duration of t whole seconds, t >= 0 *)
Seconds(t) == Dur(t \div Minute, t % Minute, 0)

(* interval <= 0 is replaced by 5; time.Duration(interval) * time.Second,   *)
(* in seconds.  The int64 product wraps from interval = 9223372037 on, which *)
(* is more than the largest integer of the checker (2^31 - 1): no interval  *)
(* the model can state reaches it.                                           *)
EffInterval(interval) == IF interval <= 0 THEN DefaultInterval ELSE interval

(* Variants of the cooldown test: not strict, and absent *)
CooldownElapsedAtLeast(last, t, cooldown) ==
    IF last = ZeroTime THEN TRUE ELSE ~DurLess(Seconds(t - last), cooldown)

CooldownElapsedAlways(last, t, cooldown) == TRUE

(* time.Since(last) > cooldown, read at time t; time.Since of the zero Time  *)
(* is the largest Duration (about 292 years)                                 *)
CooldownElapsed(last, t, cooldown) ==
    IF last = ZeroTime
    THEN DurLess(cooldown, MaxDuration)
    ELSE DurLess(cooldown, Seconds(t - last))

(* Variants of the crossing test: one failure early, one failure late *)
CrossingEarly(fails, threshold) == fails >= threshold - 1

CrossingLate(fails, threshold) == fails = threshold + 1

(* The first failure count at which runBatch marks the task down *)
Crossing(fails, threshold) == fails = threshold

(* Variant of the failure branch: a task that is down is not counted       *)
(* further                                                                   *)
OnFailureCapped(st, t, threshold, cooldown) ==
    LET fails == IF st.IsDown THEN st.ConsecutiveFails ELSE st.ConsecutiveFails + 1
        cross == Crossing(fails, threshold) /\ ~st.IsDown
        shouldAlert ==
            \/ cross
            \/ /\ st.IsDown
               /\ CooldownElapsed(st.LastAlertTime, t, cooldown)
    IN  [st |-> [ConsecutiveFails |-> fails,
                 LastAlertTime |-> st.LastAlertTime,
                 IsDown |-> IF cross THEN TRUE ELSE st.IsDown],
         shouldAlert |-> shouldAlert,
         needRecover |-> FALSE,
         failCount |-> fails]

(* if shouldAlert { st.LastAlertTime = time.Now() }, the clock showing t *)
Stamp(st, t) == [st EXCEPT !.LastAlertTime = t]

(* runBatch on a failed check up to the decision, time.Since reading the    *)
(* clock at t                                                                *)
OnFailure(st, t, threshold, cooldown) ==
    LET fails == st.ConsecutiveFails + 1
        cross == Crossing(fails, threshold)
        shouldAlert ==
            \/ cross
            \/ /\ fails > threshold
               /\ CooldownElapsed(st.LastAlertTime, t, cooldown)
    IN  [st |-> [ConsecutiveFails |-> fails,
                 LastAlertTime |-> st.LastAlertTime,
                 IsDown |-> IF cross THEN TRUE ELSE st.IsDown],
         shouldAlert |-> shouldAlert,
         needRecover |-> FALSE,
         failCount |-> fails]

(* Variant of the success branch: IsDown is cleared before it is tested *)
OnSuccessNoRecover(st) ==
    [st |-> [ConsecutiveFails |-> 0,
             LastAlertTime |-> st.LastAlertTime,
             IsDown |-> FALSE],
     shouldAlert |-> FALSE,
     needRecover |-> FALSE,
     failCount |-> 0]

(* runBatch on a successful check *)
OnSuccess(st) ==
    [st |-> [ConsecutiveFails |-> 0,
             LastAlertTime |-> st.LastAlertTime,
             IsDown |-> FALSE],
     shouldAlert |-> FALSE,
     needRecover |-> st.IsDown,
     failCount |-> 0]

(* The counters and the alert/recovery decision of runBatch for one result, *)
(* the clock showing t                                                       *)
Evaluate(st, isSuccess, t, threshold, cooldown) ==
    IF ~isSuccess THEN OnFailure(st, t, threshold, cooldown) ELSE OnSuccess(st)

(* Variant of the history cut: the first 10 are kept *)
AppendHistoryHead(his, color) ==
    LET h == Append(his, color)
    IN  IF Len(h) > HistoryCap THEN SubSeq(h, 1, HistoryCap) ELSE h

(* append(s.history[url], color), cut to the last 10 *)
AppendHistory(his, color) ==
    LET h == Append(his, color)
    IN  IF Len(h) > HistoryCap
        THEN SubSeq(h, Len(h) - HistoryCap + 1, Len(h))
        ELSE h

(* s.history[url] of a map: a missing key reads as the nil slice *)
HistoryOf(hist, url) == IF url \in DOMAIN hist THEN hist[url] ELSE <<>>

(* time.Now().Format("15:04:05"): the time of day *)
ClockString(t) == t % 86400

(* A slice is a pointer to its backing array and the elements it shows: a   *)
(* MonitorResult carries both for HistoryDots, the array being named by the  *)
(* number of the evaluation that allocated it.  The nil slice has no array.  *)
NilAddr == 0

(* What one HTTP check can meet: the URL parses, the request is built, the   *)
(* transport returns an error or a status code, after ms milliseconds.       *)
RespOk == [urlOk |-> TRUE, reqOk |-> TRUE, netErr |-> FALSE, code |-> 200, ms |-> 120]
RespSlow == [urlOk |-> TRUE, reqOk |-> TRUE, netErr |-> FALSE, code |-> 200, ms |-> 900]
RespErr == [urlOk |-> TRUE, reqOk |-> TRUE, netErr |-> FALSE, code |-> 500, ms |-> 80]
RespTimeout == [urlOk |-> TRUE, reqOk |-> TRUE, netErr |-> TRUE, code |-> 0, ms |-> 5000]
RespBadURL == [urlOk |-> FALSE, reqOk |-> TRUE, netErr |-> FALSE, code |-> 0, ms |-> 0]
RespBadReq == [urlOk |-> TRUE, reqOk |-> FALSE, netErr |-> FALSE, code |-> 200, ms |-> 30]
RespMoved == [urlOk |-> TRUE, reqOk |-> TRUE, netErr |-> FALSE, code |-> 399, ms |-> 800]
RespDenied == [urlOk |-> TRUE, reqOk |-> TRUE, netErr |-> FALSE, code |-> 400, ms |-> 100]
RespEarly == [urlOk |-> TRUE, reqOk |-> TRUE, netErr |-> FALSE, code |-> 199, ms |-> 100]
RespJustSlow == [urlOk |-> TRUE, reqOk |-> TRUE, netErr |-> FALSE, code |-> 200, ms |-> 801]

(* Variant of the status test: 400 counts as a success *)
StatusOkInclusive(code) == code >= 200 /\ code <= 400

(* resp.StatusCode >= 200 && resp.StatusCode < 400 *)
StatusOk(code) == code >= 200 /\ code < 400

(* The MonitorResult checkURL sends on the channel, for a check made at t *)
CheckResult(task, r, t) ==
    LET base == [ID |-> task.ID, TaskName |-> task.Name, URL |-> task.URL,
                 StatusCode |-> 0, Duration |-> <<0, "ms">>, DurationInt |-> 0,
                 Status |-> "", StatusColor |-> "", IsSuccess |-> FALSE,
                 LastUpdate |-> ClockString(t), HistoryDots |-> <<>>,
                 DotsAddr |-> NilAddr, Starred |-> FALSE]
        down == [base EXCEPT !.Status = "down", !.StatusColor = "red"]
        timed == [down EXCEPT !.Duration = <<r.ms, "ms">>, !.DurationInt = r.ms]
    IN  IF ~r.urlOk \/ ~r.reqOk THEN down
        ELSE IF r.netErr THEN timed
        ELSE IF StatusOk(r.code)
             THEN IF r.ms > SlowMs
                  THEN [timed EXCEPT !.StatusCode = r.code, !.IsSuccess = TRUE,
                                     !.Status = "slow", !.StatusColor = "yellow"]
                  ELSE [timed EXCEPT !.StatusCode = r.code, !.IsSuccess = TRUE,
                                     !.Status = "ok", !.StatusColor = "green"]
             ELSE [timed EXCEPT !.StatusCode = r.code]

(* Variant of the copy: one element short *)
ResultsCopyShort(rs) == [i \in 1..(Len(rs) - 1) |-> rs[i]]

(* Results(): make + copy of s.results *)
ResultsCopy(rs) == [i \in 1..Len(rs) |-> rs[i]]

(* RemoveTaskState: the results that stay *)
FilterResults(rs, id) == SelectSeqBy(rs, id)

(* Variant of delete: the key stays *)
MapDeleteNoop(m, key) == m

(* delete(m, key) on a map *)
MapDelete(m, key) == Restrict(m, DOMAIN m \ {key})

(* m[key] = val on a map *)
MapPut(m, key, val) == [x \in DOMAIN m \cup {key} |-> IF x = key THEN val ELSE m[x]]

(* Variant of Lock: returns at once *)
CanLockAlways(holder) == TRUE

(* sync.Mutex.Lock returns only when no one holds the mutex *)
CanLock(holder) == holder = NoProc

(* The largest id of a task list, 0 for the empty list *)
RECURSIVE MaxID(_)
MaxID(tasks) ==
    IF tasks = <<>> THEN 0
    ELSE LET m == MaxID(Tail(tasks))
         IN  IF Head(tasks).ID > m THEN Head(tasks).ID ELSE m

(* The defaults LoadOrDefault and ResetToExample put in place of settings   *)
(* that are out of range, and the id counter they derive when the file has  *)
(* none                                                                       *)
Normalize(c) ==
    [c EXCEPT !.Interval = IF @ <= 0 THEN DefaultInterval ELSE @,
              !.AlertThreshold = IF @ <= 0 THEN DefaultThreshold ELSE @,
              !.AlertCooldown = IF @ < 0 THEN DefaultCooldown ELSE @,
              !.NextTaskID = IF @ <= 0 THEN MaxID(c.Tasks) + 1 ELSE @]

(* Manager.ResetToExample: the configuration read from the example file *)
ResetToExample(example) == Normalize(example)

(* Manager.saveLocked: the configuration file after a write of the          *)
(* configuration c that succeeds, one JSON document                          *)
saveLocked(c) == <<c>>

(* The configuration file after a write that os.WriteFile did not finish:   *)
(* the file was opened with O_TRUNC and holds no byte, or holds the first   *)
(* bytes of the JSON document of c                                           *)
EmptyFile == <<[Prefix |-> <<>>]>>
ShortFile(c) == <<[Prefix |-> <<c>>]>>

(* Manager.DeleteTask: the remaining tasks and the URL of the deleted one *)
RECURSIVE DeletedURL(_, _, _)
DeletedURL(tasks, id, acc) ==
    IF tasks = <<>> THEN acc
    ELSE DeletedURL(Tail(tasks), id, IF Head(tasks).ID = id THEN Head(tasks).URL ELSE acc)

----------------------------------------------------------------------------
(* Locals of a process that is not inside runOnce *)
IdleLoc == [tasks |-> <<>>, shares |-> FALSE, threshold |-> 0, cooldownMin |-> 0,
            interval |-> 0, thr |-> 0, cooldown |-> Dur(0, 0, 0), pending |-> {},
            ch |-> <<>>, newResults |-> <<>>, cur |-> <<>>]

(* c := s.cfg.Get(); the arguments handed to runOnce.  Get returns a copy   *)
(* of the Config struct: its Tasks is a slice of the array m.cfg.Tasks      *)
(* points to (shares)                                                        *)
CallArgs(c) == [IdleLoc EXCEPT !.tasks = c.Tasks,
                               !.shares = TRUE,
                               !.threshold = c.AlertThreshold,
                               !.cooldownMin = c.AlertCooldown,
                               !.interval = c.Interval]

(* The locals of the goroutines after m.cfg.Tasks is given a new array: the *)
(* slices they hold stay with the old one                                    *)
Unshare(l) == [p \in DOMAIN l |-> [l[p] EXCEPT !.shares = FALSE]]

(* The locals of the goroutines after the flag of element i of the array of *)
(* m.cfg.Tasks is inverted: a slice of that array shows the new flag        *)
StarInPlace(l, i) ==
    [p \in DOMAIN l |->
        IF l[p].shares /\ i \in 1..Len(l[p].tasks)
        THEN [l[p] EXCEPT !.tasks[i].Starred = ~@]
        ELSE l[p]]

(* The index of the first task with the id; 0 when no task has it *)
IndexOf(tasks, id) ==
    IF \E i \in 1..Len(tasks) : tasks[i].ID = id
    THEN CHOOSE i \in 1..Len(tasks) :
             /\ tasks[i].ID = id
             /\ \A j \in 1..(i - 1) : tasks[j].ID # id
    ELSE 0

(* The event rows and mails runBatch produces for one evaluated result *)
NewEvents(res, ev, t) ==
    (IF ev.shouldAlert
     THEN <<[TaskName |-> res.TaskName, EventTime |-> t, Type |-> AlertType,
             Fails |-> ev.failCount, Code |-> res.StatusCode,
             IsResolved |-> FALSE]>>
     ELSE <<>>)
    \o
    (IF ev.needRecover
     THEN <<[TaskName |-> res.TaskName, EventTime |-> t, Type |-> RecoverType,
             Fails |-> 0, Code |-> res.StatusCode, IsResolved |-> FALSE]>>
     ELSE <<>>)

(* go func() { _ = s.sendMail(...) }(): the goroutines started for one result *)
NewMails(res, ev) ==
    (IF ev.shouldAlert
     THEN <<[Kind |-> AlertType, TaskName |-> res.TaskName, State |-> "running"]>>
     ELSE <<>>)
    \o
    (IF ev.needRecover
     THEN <<[Kind |-> RecoverType, TaskName |-> res.TaskName, State |-> "running"]>>
     ELSE <<>>)

(* Variant of the dispatch: sendMail is called in the loop itself, which   *)
(* goes on when the call has returned                                        *)
LoopGoesOnInline(ms) == \A i \in 1..Len(ms) : ms[i].State # "running"

(* The loop of runBatch after a go statement: it goes on, whatever the     *)
(* goroutines started so far are doing                                       *)
LoopGoesOn(ms) == TRUE

(* Variant of the store calls: the rows go to a handle that is closed *)
CreateNowhere(table, rows, ok) == table

(* Repo.CreateEvent / Repo.CreatePerformance: r.DB.Create(row), whose error *)
(* is not looked at; ok says whether the database took the rows             *)
Create(table, rows, ok) == IF ok THEN table \o rows ELSE table

(* Repo.ResolveDownEvents: every unresolved alert row of that task name *)
ResolveDownEvents(evs, name) ==
    [i \in 1..Len(evs) |->
        IF evs[i].TaskName = name /\ evs[i].Type = AlertType /\ ~evs[i].IsResolved
        THEN [evs[i] EXCEPT !.IsResolved = TRUE]
        ELSE evs[i]]

(* The same call on a database that takes the update or not *)
Resolve(evs, name, ok) == IF ok THEN ResolveDownEvents(evs, name) ELSE evs

----------------------------------------------------------------------------
(* sync.RWMutex: the goroutine that holds it for writing and the number of  *)
(* goroutines that hold it for reading                                       *)
MuFree == [w |-> NoProc, r |-> 0]

(* The goroutines of the handlers: where the callers of Results and of      *)
(* RemoveTaskState are and the number of calls of each still to come; the   *)
(* request deleteTaskHandler and toggleStarHandler are serving, and where   *)
(* resetHandler and clearLogsHandler are                                     *)
NoCalls == [reader |-> "idle", remover |-> "idle",
            left |-> [reader |-> 0, remover |-> 0],
            del |-> <<>>, star |-> <<>>, reset |-> "idle", clear |-> "idle"]

(* The goroutine of the handler that calls RemoveTaskState, as a holder of  *)
(* s.mu                                                                      *)
Remover == -2

(* s.mu.Lock() returns when no one holds the lock; s.mu.RLock() when no one *)
(* holds it for writing                                                      *)
CanWrite(m) == m.w = NoProc /\ m.r = 0
CanRead(m) == m.w = NoProc

----------------------------------------------------------------------------
(* Service.Start: the cancellation check, then cfg.Get and the call of runOnce *)
Start ==
    /\ pc[Sched] = "loop"
    /\ IF ctxDone
       THEN /\ pc' = [pc EXCEPT ![Sched] = "done"]
            /\ UNCHANGED <<loc, budget, deletes>>
       ELSE /\ budget > 0
            /\ budget' = budget - 1
            /\ loc' = [loc EXCEPT ![Sched] = CallArgs(cfg)]
            /\ pc' = [pc EXCEPT ![Sched] = "lock"]
    /\ UNCHANGED <<aux, out, storeOk, cfg, now, ctxDone, runMu, wakeAt, results, states, history,
                   events, perf, mails, log, published,
                   removed, fresh, deletes>>

(* runOnce(tasks, threshold, cooldownMin) called from the loop of Start     *)
(* with settings given by the caller instead of those of the configuration  *)
StartArgs(threshold, cooldownMin) ==
    /\ pc[Sched] = "loop"
    /\ ~ctxDone
    /\ budget > 0
    /\ budget' = budget - 1
    /\ loc' = [loc EXCEPT ![Sched] =
                  CallArgs([cfg EXCEPT !.AlertThreshold = threshold,
                                       !.AlertCooldown = cooldownMin])]
    /\ pc' = [pc EXCEPT ![Sched] = "lock"]
    /\ UNCHANGED <<aux, out, storeOk, cfg, now, ctxDone, runMu, wakeAt, results,
                   states, history, events, perf, mails, log, published,
                   removed, fresh, deletes>>

(* Variant of the wait: the timer alone ends it *)
StartWaitTimerOnly ==
    /\ pc[Sched] \in {"timer", "wait"}
    /\ IF pc[Sched] = "timer"
       THEN /\ wakeAt' = now + EffInterval(loc[Sched].interval)
            /\ pc' = [pc EXCEPT ![Sched] = "wait"]
            /\ loc' = [loc EXCEPT ![Sched] = IdleLoc]
       ELSE /\ now >= wakeAt
            /\ pc' = [pc EXCEPT ![Sched] = "loop"]
            /\ wakeAt' = 0
            /\ loc' = loc
    /\ UNCHANGED <<aux, out, storeOk, cfg, now, ctxDone, runMu, results, states,
                   history, events, perf, mails, log, published,
                   removed, fresh, budget, deletes>>

(* Service.Start after runOnce has returned: the interval is read and       *)
(* time.After starts the timer with the clock it finds, then the select     *)
(* waits for ctx.Done() or the timer                                         *)
StartWait ==
    /\ pc[Sched] \in {"timer", "wait"}
    /\ IF pc[Sched] = "timer"
       THEN /\ wakeAt' = now + EffInterval(loc[Sched].interval)
            /\ pc' = [pc EXCEPT ![Sched] = "wait"]
            /\ loc' = [loc EXCEPT ![Sched] = IdleLoc]
       ELSE /\ \/ /\ ctxDone
                  /\ pc' = [pc EXCEPT ![Sched] = "done"]
               \/ /\ now >= wakeAt
                  /\ pc' = [pc EXCEPT ![Sched] = "loop"]
            /\ wakeAt' = 0
            /\ loc' = loc
    /\ UNCHANGED <<aux, out, storeOk, cfg, now, ctxDone, runMu, results, states,
                   history, events, perf, mails, log, published,
                   removed, fresh, budget, deletes>>

(* The context of Start is cancelled *)
Cancel ==
    /\ ~ctxDone
    /\ ctxDone' = TRUE
    /\ UNCHANGED <<aux, out, storeOk, cfg, now, runMu, pc, loc, wakeAt, results, states, history,
                   events, perf, mails, log, published,
                   removed, fresh, budget, deletes>>

(* go s.runOnce(c.Tasks, c.AlertThreshold, c.AlertCooldown): the goroutine  *)
(* takes the lowest free slot p                                              *)
GoRunOnce(p, c) ==
    /\ p \in DOMAIN pc \ {Sched}
    /\ pc[p] = "idle"
    /\ \A q \in DOMAIN pc \ {Sched} : q < p => pc[q] # "idle"
    /\ budget > 0
    /\ budget' = budget - 1
    /\ loc' = [loc EXCEPT ![p] = CallArgs(c)]
    /\ pc' = [pc EXCEPT ![p] = "lock"]

(* Service.TriggerNow: cfg.Get and a new goroutine running runOnce *)
TriggerNow(p) ==
    /\ GoRunOnce(p, cfg)
    /\ UNCHANGED <<aux, out, storeOk, cfg, now, ctxDone, runMu, wakeAt, results, states, history,
                   events, perf, mails, log, published,
                   removed, fresh, deletes>>

(* Variant of runOnce: a call that finds a sweep running returns at once *)
runOnceTryLock(p) ==
    /\ pc[p] = "lock"
    /\ IF CanLock(runMu)
       THEN /\ runMu' = p
            /\ pc' = [pc EXCEPT ![p] = "batch"]
            /\ loc' = loc
       ELSE /\ runMu' = runMu
            /\ pc' = [pc EXCEPT ![p] = IF p = Sched THEN "timer" ELSE "idle"]
            /\ loc' = [loc EXCEPT ![p] = IF p = Sched
                                         THEN [IdleLoc EXCEPT !.interval = loc[p].interval]
                                         ELSE IdleLoc]
    /\ UNCHANGED <<aux, out, storeOk, cfg, now, ctxDone, wakeAt, results, states,
                   history, events, perf, mails, log, published,
                   removed, fresh, budget, deletes>>

(* runOnce: s.runMu.Lock() *)
runOnceLock(p) ==
    /\ pc[p] = "lock"
    /\ CanLock(runMu)
    /\ runMu' = p
    /\ pc' = [pc EXCEPT ![p] = "batch"]
    /\ UNCHANGED <<aux, out, storeOk, cfg, now, ctxDone, loc, wakeAt, results, states, history,
                   events, perf, mails, log, published,
                   removed, fresh, budget, deletes>>

(* Variant of runBatch: no return for an empty task list, the loops run    *)
(* over nothing and the empty newResults is published                        *)
runBatchBeginNoReturn(p) ==
    /\ pc[p] = "batch"
    /\ loc' = [loc EXCEPT ![p].thr = EffThreshold(loc[p].threshold),
                          ![p].cooldown = EffCooldown(loc[p].cooldownMin),
                          ![p].pending = 1..Len(loc[p].tasks)]
    /\ pc' = [pc EXCEPT ![p] = "collect"]
    /\ UNCHANGED <<aux, out, storeOk, cfg, now, ctxDone, runMu, wakeAt, results,
                   states, history, events, perf, mails, log, published,
                   removed, fresh, budget, deletes>>

(* runBatch up to the dispatch of the checkURL goroutines *)
runBatchBegin(p) ==
    /\ pc[p] = "batch"
    /\ IF Len(loc[p].tasks) = 0
       THEN /\ pc' = [pc EXCEPT ![p] = "unlock"]
            /\ loc' = loc
       ELSE /\ loc' = [loc EXCEPT ![p].thr = EffThreshold(loc[p].threshold),
                                   ![p].cooldown = EffCooldown(loc[p].cooldownMin),
                                   ![p].pending = 1..Len(loc[p].tasks)]
            /\ pc' = [pc EXCEPT ![p] = "collect"]
    /\ UNCHANGED <<aux, out, storeOk, cfg, now, ctxDone, runMu, wakeAt, results, states, history,
                   events, perf, mails, log, published,
                   removed, fresh, budget, deletes>>

(* The positions of a round of the collecting loop after its receive *)
InRound(p) == pc[p] \in {"mulock", "stamp", "alert", "recover", "resolve"}

(* The number of a sweep that holds runMu: the evaluations made before it *)
SweepNo(p) ==
    Len(log) - Len(loc[p].newResults)
        - (IF pc[p] \in {"stamp", "alert", "recover", "resolve"} THEN 1 ELSE 0)

(* Observation of one checkURL call: the sweep, the entry of the target     *)
(* list, and what the check met                                              *)
Probe(p, k, r) ==
    [Proc |-> p, Sweep |-> SweepNo(p), Index |-> k, ID |-> loc[p].tasks[k].ID,
     Resp |-> r, Time |-> now]

(* Variant of checkURL: a check that fails is made again in the same sweep *)
checkURLRetry(p, k, r) ==
    /\ pc[p] = "collect"
    /\ k \in loc[p].pending
    /\ loc' = [loc EXCEPT ![p].pending = IF CheckResult(loc[p].tasks[k], r, now).IsSuccess
                                         THEN @ \ {k} ELSE @,
                          ![p].ch = Append(@, CheckResult(loc[p].tasks[k], r, now))]
    /\ probes' = Append(probes, Probe(p, k, r))
    /\ UNCHANGED <<locks, disk, issued, resetAt, out, storeOk, cfg, now, ctxDone, runMu, pc,
                   wakeAt, results, states, history, events, perf, mails, log,
                   published, removed, fresh, budget, deletes>>

(* Variant of checkURL: a check whose request cannot be built or sent      *)
(* returns without a result                                                  *)
checkURLSilent(p, k, r) ==
    /\ pc[p] = "collect"
    /\ k \in loc[p].pending
    /\ loc' = [loc EXCEPT ![p].pending = @ \ {k},
                          ![p].ch = IF r.urlOk /\ r.reqOk /\ ~r.netErr
                                    THEN Append(@, CheckResult(loc[p].tasks[k], r, now))
                                    ELSE @]
    /\ probes' = Append(probes, Probe(p, k, r))
    /\ UNCHANGED <<locks, disk, issued, resetAt, out, storeOk, cfg, now, ctxDone, runMu, pc,
                   wakeAt, results, states, history, events, perf, mails, log,
                   published, removed, fresh, budget, deletes>>

(* checkURL of the k-th task of the sweep of p, meeting response r *)
checkURL(p, k, r) ==
    /\ pc[p] = "collect"
    /\ k \in loc[p].pending
    /\ loc' = [loc EXCEPT ![p].pending = @ \ {k},
                          ![p].ch = Append(@, CheckResult(loc[p].tasks[k], r, now))]
    /\ probes' = Append(probes, Probe(p, k, r))
    /\ UNCHANGED <<locks, disk, issued, resetAt, out, storeOk, cfg, now, ctxDone, runMu, pc, wakeAt, results, states, history,
                   events, perf, mails, log, published,
                   removed, fresh, budget, deletes>>

(* Variant of the store calls: a failed write ends the sweep *)
AfterStoreAbort(failed, next) == IF failed THEN "unlock" ELSE next

(* Where runBatch is after a store call: the calls return nothing, the     *)
(* loop goes on                                                              *)
AfterStore(failed, next) == next

(* The decision of a round that has not evaluated its result yet *)
NoDecision == [st |-> ZeroState, shouldAlert |-> FALSE, needRecover |-> FALSE,
               failCount |-> 0]

(* CreatePerformance for a result that is a success *)
PerfAfter(res) ==
    IF res.IsSuccess
    THEN Create(perf, <<[TaskID |-> res.ID, TaskName |-> res.TaskName,
                         ResponseTime |-> res.DurationInt,
                         CheckTime |-> ClockString(now)]>>, storeOk)
    ELSE perf

(* One round of the collecting loop of runBatch: res := <-ch, and           *)
(* CreatePerformance for a success, before s.mu is asked for                 *)
runBatchReceive(p) ==
    /\ pc[p] = "collect"
    /\ Len(loc[p].newResults) < Len(loc[p].tasks)
    /\ loc[p].ch # <<>>
    /\ LoopGoesOn(mails)
    /\ perf' = PerfAfter(Head(loc[p].ch))
    /\ loc' = [loc EXCEPT ![p].ch = Tail(@),
                          ![p].cur = <<[res |-> Head(loc[p].ch), ev |-> NoDecision]>>]
    /\ pc' = [pc EXCEPT ![p] = AfterStore(Head(loc[p].ch).IsSuccess /\ ~storeOk, "mulock")]
    /\ UNCHANGED <<aux, out, storeOk, cfg, now, ctxDone, runMu, wakeAt, results,
                   states, history, events, mails, log, published, removed, fresh,
                   budget, deletes>>

(* What the critical section of a round computes from the result received:  *)
(* the Result with its history, the decision, and the observation of the    *)
(* round                                                                     *)
Round(p) ==
    LET recv == loc[p].cur[1].res
        his == AppendHistory(HistoryOf(history, recv.URL), recv.StatusColor)
        res == [recv EXCEPT !.HistoryDots = his, !.DotsAddr = Len(log) + 1]
        st == IF res.ID \in DOMAIN states THEN states[res.ID] ELSE ZeroState
        ev == Evaluate(st, res.IsSuccess, now, loc[p].thr, loc[p].cooldown)
        added == NewEvents(res, ev, now)
    IN  [res |-> res, his |-> his, ev |-> ev,
         entry |-> [Proc |-> p, Sweep |-> SweepNo(p),
                    ID |-> res.ID, URL |-> res.URL,
                    IsSuccess |-> res.IsSuccess, Time |-> now,
                    Before |-> st, After |-> ev.st,
                    HadState |-> res.ID \in DOMAIN states,
                    Fresh |-> res.ID \in fresh,
                    Threshold |-> loc[p].thr,
                    Cooldown |-> loc[p].cooldown,
                    ThresholdIn |-> loc[p].threshold,
                    CooldownIn |-> loc[p].cooldownMin,
                    Alerts |-> Len(SelectSeq(added, LAMBDA e : e.Type = AlertType)),
                    Recoveries |-> Len(SelectSeq(added, LAMBDA e : e.Type = RecoverType)),
                    Resolves |-> 0,
                    AlertRow |-> 0,
                    RecoverRow |-> 0,
                    Mails |-> 0,
                    HisBefore |-> HistoryOf(history, recv.URL),
                    HisAfter |-> his,
                    Color |-> recv.StatusColor]]

(* Variant of the critical section: s.mu is kept when it ends *)
runBatchUpdateKeep(p) ==
    /\ pc[p] \in {"mulock", "stamp"}
    /\ IF pc[p] = "mulock"
       THEN /\ CanWrite(mu)
            /\ LET rd == Round(p)
               IN  /\ history' = MapPut(history, rd.res.URL, rd.his)
                   /\ states' = MapPut(states, rd.res.ID, rd.ev.st)
                   /\ log' = Append(log, rd.entry)
                   /\ fresh' = fresh \ {rd.res.ID}
                   /\ mu' = [mu EXCEPT !.w = p]
                   /\ IF rd.ev.shouldAlert \/ rd.ev.needRecover
                      THEN /\ loc' = [loc EXCEPT ![p].cur = <<[res |-> rd.res, ev |-> rd.ev]>>]
                           /\ pc' = [pc EXCEPT ![p] = IF rd.ev.shouldAlert
                                                      THEN "stamp" ELSE "recover"]
                      ELSE /\ loc' = [loc EXCEPT ![p].newResults = Append(@, rd.res),
                                                 ![p].cur = <<>>]
                           /\ pc' = [pc EXCEPT ![p] = "collect"]
       ELSE /\ mu.w = p
            /\ states' = MapPut(states, loc[p].cur[1].res.ID,
                                Stamp(states[loc[p].cur[1].res.ID], now))
            /\ log' = [log EXCEPT ![Len(log)].After = Stamp(@, now)]
            /\ pc' = [pc EXCEPT ![p] = "alert"]
            /\ UNCHANGED <<mu, history, fresh, loc>>
    /\ UNCHANGED <<disk, issued, probes, resetAt, cpc, out, storeOk, cfg, now, ctxDone,
                   runMu, wakeAt, results, events, perf, mails, published, removed,
                   budget, deletes>>

(* The critical section of a round, s.mu.Lock() to s.mu.Unlock(): the       *)
(* history and the TaskState are updated and the decision is taken, with the *)
(* clock read by time.Since; for an alert the clock is read again, by       *)
(* st.LastAlertTime = time.Now(), which is a step of its own.  A round that *)
(* has nothing to store appends its result to newResults.                    *)
runBatchUpdate(p) ==
    /\ pc[p] \in {"mulock", "stamp"}
    /\ IF pc[p] = "mulock"
       THEN /\ CanWrite(mu)
            /\ LET rd == Round(p)
               IN  /\ history' = MapPut(history, rd.res.URL, rd.his)
                   /\ states' = MapPut(states, rd.res.ID, rd.ev.st)
                   /\ log' = Append(log, rd.entry)
                   /\ fresh' = fresh \ {rd.res.ID}
                   /\ mu' = [mu EXCEPT !.w = IF rd.ev.shouldAlert THEN p ELSE NoProc]
                   /\ IF rd.ev.shouldAlert \/ rd.ev.needRecover
                      THEN /\ loc' = [loc EXCEPT ![p].cur = <<[res |-> rd.res, ev |-> rd.ev]>>]
                           /\ pc' = [pc EXCEPT ![p] = IF rd.ev.shouldAlert
                                                      THEN "stamp" ELSE "recover"]
                      ELSE /\ loc' = [loc EXCEPT ![p].newResults = Append(@, rd.res),
                                                 ![p].cur = <<>>]
                           /\ pc' = [pc EXCEPT ![p] = "collect"]
       ELSE /\ mu.w = p
            /\ states' = MapPut(states, loc[p].cur[1].res.ID,
                                Stamp(states[loc[p].cur[1].res.ID], now))
            /\ log' = [log EXCEPT ![Len(log)].After = Stamp(@, now)]
            /\ mu' = [mu EXCEPT !.w = NoProc]
            /\ pc' = [pc EXCEPT ![p] = "alert"]
            /\ UNCHANGED <<history, fresh, loc>>
    /\ UNCHANGED <<disk, issued, probes, resetAt, cpc, out, storeOk, cfg, now, ctxDone,
                   runMu, wakeAt, results, events, perf, mails, published, removed,
                   budget, deletes>>

(* The rest of a round, one call of the repository at a time: for an alert  *)
(* CreateEvent and the mail; for a recovery CreateEvent, then               *)
(* ResolveDownEvents and the mail; then newResults = append(newResults, res) *)
runBatchStore(p) ==
    /\ pc[p] \in {"alert", "recover", "resolve"}
    /\ LET rd == loc[p].cur[1]
           last == [loc EXCEPT ![p].newResults = Append(@, rd.res), ![p].cur = <<>>]
       IN  CASE pc[p] = "alert" ->
                  /\ events' = Create(events, NewEvents(rd.res, rd.ev, now), storeOk)
                  /\ log' = [log EXCEPT ![Len(log)].AlertRow =
                                            IF storeOk THEN Len(events) + 1 ELSE 0,
                                        ![Len(log)].Mails = @ + Len(NewMails(rd.res, rd.ev))]
                  /\ mails' = mails \o NewMails(rd.res, rd.ev)
                  /\ loc' = last
                  /\ pc' = [pc EXCEPT ![p] = AfterStore(~storeOk, "collect")]
             [] pc[p] = "recover" ->
                  /\ events' = Create(events, NewEvents(rd.res, rd.ev, now), storeOk)
                  /\ log' = [log EXCEPT ![Len(log)].RecoverRow =
                                IF storeOk THEN Len(events) + 1 ELSE 0]
                  /\ pc' = [pc EXCEPT ![p] = AfterStore(~storeOk, "resolve")]
                  /\ UNCHANGED <<mails, loc>>
             [] pc[p] = "resolve" ->
                  /\ events' = Resolve(events, rd.res.TaskName, storeOk)
                  /\ mails' = mails \o NewMails(rd.res, rd.ev)
                  /\ loc' = last
                  /\ pc' = [pc EXCEPT ![p] = AfterStore(~storeOk, "collect")]
                  /\ log' = [log EXCEPT ![Len(log)].Resolves = @ + 1,
                                        ![Len(log)].Mails = @ + Len(NewMails(rd.res, rd.ev))]
    /\ UNCHANGED <<aux, out, storeOk, cfg, now, ctxDone, runMu, wakeAt, results,
                   states, history, perf, published, removed, fresh, budget, deletes>>

(* One round of the collecting loop of runBatch, step by step *)
runBatchCollect(p) ==
    \/ runBatchReceive(p)
    \/ runBatchUpdate(p)
    \/ runBatchStore(p)


(* Variant of the publication: as soon as one result was collected *)
runBatchPublishEarly(p) ==
    /\ pc[p] = "collect"
    /\ Len(loc[p].newResults) >= 1
    /\ CanWrite(mu)
    /\ results' = loc[p].newResults
    /\ published' = [ids |-> {loc[p].tasks[k].ID : k \in 1..Len(loc[p].tasks)},
                     coll |-> loc[p].newResults]
    /\ removed' = {}
    /\ pc' = [pc EXCEPT ![p] = "unlock"]
    /\ UNCHANGED <<aux, out, storeOk, cfg, now, ctxDone, runMu, loc, wakeAt, states,
                   history, events, perf, mails, log, fresh, budget, deletes>>

(* Variant of the publication: the TaskStates of ids that are not in the   *)
(* task list of the sweep are dropped                                        *)
runBatchPublishPrune(p) ==
    /\ pc[p] = "collect"
    /\ Len(loc[p].newResults) = Len(loc[p].tasks)
    /\ LoopGoesOn(mails)
    /\ CanWrite(mu)
    /\ results' = loc[p].newResults
    /\ states' = Restrict(states, DOMAIN states \cap
                              {loc[p].tasks[k].ID : k \in 1..Len(loc[p].tasks)})
    /\ published' = [ids |-> {loc[p].tasks[k].ID : k \in 1..Len(loc[p].tasks)},
                     coll |-> loc[p].newResults]
    /\ removed' = {}
    /\ pc' = [pc EXCEPT ![p] = "unlock"]
    /\ UNCHANGED <<aux, out, storeOk, cfg, now, ctxDone, runMu, loc, wakeAt,
                   history, events, perf, mails, log, fresh, budget, deletes>>

(* runBatch after the loop: s.mu.Lock(), s.results = newResults,            *)
(* s.mu.Unlock()                                                             *)
runBatchPublish(p) ==
    /\ pc[p] = "collect"
    /\ Len(loc[p].newResults) = Len(loc[p].tasks)
    /\ LoopGoesOn(mails)
    /\ CanWrite(mu)
    /\ results' = loc[p].newResults
    /\ published' = [ids |-> {loc[p].tasks[k].ID : k \in 1..Len(loc[p].tasks)},
                     coll |-> loc[p].newResults]
    /\ removed' = {}
    /\ pc' = [pc EXCEPT ![p] = "unlock"]
    /\ UNCHANGED <<aux, out, storeOk, cfg, now, ctxDone, runMu, loc, wakeAt, states, history,
                   events, perf, mails, log, fresh, budget, deletes>>

(* runOnce: the deferred s.runMu.Unlock() and the return, to the loop of    *)
(* Start or out of the goroutine of TriggerNow                               *)
runOnceUnlock(p) ==
    /\ pc[p] = "unlock"
    /\ runMu' = NoProc
    /\ pc' = [pc EXCEPT ![p] = IF p = Sched THEN "timer" ELSE "idle"]
    /\ loc' = [loc EXCEPT ![p] = IF p = Sched
                                 THEN [IdleLoc EXCEPT !.interval = loc[p].interval]
                                 ELSE IdleLoc]
    /\ UNCHANGED <<aux, out, storeOk, cfg, now, ctxDone, wakeAt, results, states,
                   history, events, perf, mails, log, published, removed, fresh,
                   budget, deletes>>

(* Service.Results: the copy a call returns in the current state *)
Results == ResultsCopy(results)

(* A write of c to element j of the backing array a, as seen through the    *)
(* slice of results rs: every entry whose HistoryDots points to a shows it  *)
StoreAt(rs, a, j, c) ==
    [k \in 1..Len(rs) |->
        IF rs[k].DotsAddr = a /\ j \in 1..Len(rs[k].HistoryDots)
        THEN [rs[k] EXCEPT !.HistoryDots[j] = c]
        ELSE rs[k]]

(* A handler calls Results() and keeps the slice it returns: s.mu.RLock(),  *)
(* the copy and the deferred s.mu.RUnlock()                                  *)
CallResults ==
    /\ CanRead(mu)
    /\ out' = Results
    /\ UNCHANGED <<aux, storeOk, cfg, now, ctxDone, runMu, pc, loc, wakeAt, results,
                   states, history, events, perf, mails, log, published,
                   removed, fresh, budget, deletes>>

(* less of resultsHandler and webHandler: a starred entry before one that   *)
(* is not, then by ID ascending                                              *)
Less(a, b) == IF a.Starred # b.Starred THEN a.Starred ELSE a.ID < b.ID

(* sort.Slice(s, less): the orders the call can leave s in; the sort is not *)
(* stable, entries that less does not order come out in any order           *)
SortSlice(s) ==
    {[i \in 1..Len(s) |-> s[f[i]]] :
        f \in {g \in Permutations(1..Len(s)) :
                  \A i \in 1..Len(s) - 1 : ~Less(s[g[i + 1]], s[g[i]])}}

(* The handler sorts the slice it holds: sort.Slice(res, less) *)
CallerSort ==
    /\ out' \in SortSlice(out)
    /\ UNCHANGED <<aux, storeOk, cfg, now, ctxDone, runMu, pc, loc, wakeAt, results,
                   states, history, events, perf, mails, log, published,
                   removed, fresh, budget, deletes>>

(* The caller assigns fields of entry i of the slice it holds, the           *)
(* HistoryDots field included (a new slice)                                  *)
CallerSetEntry(i) ==
    /\ i \in 1..Len(out)
    /\ out[i].TaskName # "edited"
    /\ out' = [out EXCEPT ![i].TaskName = "edited", ![i].Starred = TRUE,
                          ![i].HistoryDots = <<>>, ![i].DotsAddr = NilAddr]
    /\ UNCHANGED <<aux, storeOk, cfg, now, ctxDone, runMu, pc, loc, wakeAt, results,
                   states, history, events, perf, mails, log, published,
                   removed, fresh, budget, deletes>>

(* The caller assigns element j of the HistoryDots of entry i of the slice  *)
(* it holds: out[i].HistoryDots[j] = c writes to the backing array           *)
CallerSetDot(i, j, c) ==
    /\ i \in 1..Len(out)
    /\ j \in 1..Len(out[i].HistoryDots)
    /\ out[i].HistoryDots[j] # c
    /\ out' = StoreAt(out, out[i].DotsAddr, j, c)
    /\ results' = StoreAt(results, out[i].DotsAddr, j, c)
    /\ loc' = [p \in DOMAIN loc |->
                  [loc[p] EXCEPT !.newResults = StoreAt(@, out[i].DotsAddr, j, c)]]
    /\ UNCHANGED <<aux, storeOk, cfg, now, ctxDone, runMu, pc, wakeAt,
                   states, history, events, perf, mails, log, published,
                   removed, fresh, budget, deletes>>

(* Service.RemoveTaskState(id, url), between s.mu.Lock() and the deferred   *)
(* s.mu.Unlock()                                                             *)
RemoveTaskState(id, url) ==
    /\ states' = MapDelete(states, id)
    /\ history' = MapDelete(history, url)
    /\ results' = FilterResults(results, id)
    /\ removed' = removed \cup {id}
    /\ fresh' = fresh \cup {id}

(* Manager.DeleteTask(id): the tasks that stay *)
DeleteTask(tasks, id) == SelectSeqBy(tasks, id)

(* saveLocked with the outcome of os.WriteFile, the files the call can      *)
(* leave.  os.WriteFile opens the file with O_CREATE and O_TRUNC, writes and *)
(* closes it, and returns the first error: the file is as it was when the   *)
(* open fails, empty or cut short when the write fails, and whole when only *)
(* the close fails.  The error is the one the mutator returns.              *)
WriteFile(d, c, ok) ==
    IF ok THEN {saveLocked(c)} ELSE {d, EmptyFile, ShortFile(c), saveLocked(c)}

(* deleteTaskHandler, a step at a time.  A request with id <= 0 is answered *)
(* 400.  DeleteTask(id) gives m.cfg.Tasks a new array with the tasks that   *)
(* stay and writes the file; when the write fails the handler answers 500   *)
(* and returns.  Then, in a step of its own, RemoveTaskState(id, delURL).   *)
deleteTaskHandler(id, ok) ==
    /\ IF cpc.del = <<>>
       THEN /\ deletes > 0
            /\ deletes' = deletes - 1
            /\ IF id <= 0
               THEN UNCHANGED <<cfg, disk, cpc, loc>>
               ELSE /\ cfg' = [cfg EXCEPT !.Tasks = DeleteTask(@, id)]
                    /\ disk' \in WriteFile(disk, cfg', ok)
                    /\ loc' = Unshare(loc)
                    /\ cpc' = [cpc EXCEPT !.del =
                                  IF ok THEN <<[id |-> id,
                                                url |-> DeletedURL(cfg.Tasks, id, "")]>>
                                  ELSE <<>>]
            /\ UNCHANGED <<states, history, results, removed, fresh>>
       ELSE /\ CanWrite(mu)
            /\ id = cpc.del[1].id
            /\ ok
            /\ RemoveTaskState(cpc.del[1].id, cpc.del[1].url)
            /\ cpc' = [cpc EXCEPT !.del = <<>>]
            /\ UNCHANGED <<cfg, disk, deletes, loc>>
    /\ UNCHANGED <<mu, issued, probes, resetAt, out, storeOk, now, ctxDone, runMu, pc,
                   wakeAt, events, perf, mails, log, published, budget>>

(* Manager.UpdateSettings(in): the settings after the call *)
SettingsAfter(c, in) ==
    [c EXCEPT !.Interval = IF in.Interval <= 0 THEN DefaultInterval ELSE in.Interval,
              !.AlertThreshold = IF in.AlertThreshold <= 0
                                 THEN DefaultThreshold ELSE in.AlertThreshold,
              !.AlertCooldown = IF in.AlertCooldown < 0
                                THEN DefaultCooldown ELSE in.AlertCooldown]

(* Manager.UpdateSettings(in), with the outcome of the write of the file *)
UpdateSettings(in, ok) ==
    /\ cfg' = SettingsAfter(cfg, in)
    /\ disk' \in WriteFile(disk, cfg', ok)
    /\ UNCHANGED <<locks, issued, probes, resetAt, out, storeOk, now, ctxDone, runMu, pc, loc, wakeAt, results,
                   states, history, events, perf, mails, log, published,
                   removed, fresh, budget, deletes>>

(* The starred flag of the first task with that id *)
RECURSIVE StarOf(_, _)
StarOf(tasks, id) ==
    IF tasks = <<>> THEN FALSE
    ELSE IF Head(tasks).ID = id THEN Head(tasks).Starred
         ELSE StarOf(Tail(tasks), id)

(* Manager.ToggleStar(id): the task list after the call; the first task with *)
(* that id has its flag inverted                                              *)
RECURSIVE ToggleStar(_, _)
ToggleStar(tasks, id) ==
    IF tasks = <<>> THEN <<>>
    ELSE IF Head(tasks).ID = id
         THEN <<[Head(tasks) EXCEPT !.Starred = ~@]>> \o Tail(tasks)
         ELSE <<Head(tasks)>> \o ToggleStar(Tail(tasks), id)

(* Variant of the value ToggleStar returns: the flag of the loop variable,  *)
(* a copy made before the assignment                                         *)
ToggleStarValueOld(tasks, id) == StarOf(tasks, id)

(* Manager.ToggleStar(id): the value returned, m.cfg.Tasks[i].Starred after *)
(* the assignment                                                            *)
ToggleStarValue(tasks, id) == StarOf(ToggleStar(tasks, id), id)

(* Manager.ToggleStar(id) with the outcome of the write; an id that no task  *)
(* has is answered with an error before m.cfg is touched.  The flag is      *)
(* assigned to the element of the array, which the slices handed out by Get *)
(* share.                                                                     *)
CallToggleStar(id, ok) ==
    /\ IF \E i \in 1..Len(cfg.Tasks) : cfg.Tasks[i].ID = id
       THEN /\ cfg' = [cfg EXCEPT !.Tasks = ToggleStar(@, id)]
            /\ disk' \in WriteFile(disk, cfg', ok)
            /\ loc' = StarInPlace(loc, IndexOf(cfg.Tasks, id))
       ELSE UNCHANGED <<cfg, disk, loc>>
    /\ UNCHANGED <<locks, issued, probes, resetAt, out, storeOk, now, ctxDone, runMu, pc,
                   wakeAt, results, states, history, events, perf, mails,
                   log, published, removed, fresh, budget, deletes>>

(* Service.UpdateStar(id, starred): the published results after the call    *)
UpdateStar(rs, id, starred) ==
    [k \in 1..Len(rs) |->
        IF rs[k].ID = id THEN [rs[k] EXCEPT !.Starred = starred] ELSE rs[k]]

(* toggleStarHandler, a step at a time.  Manager.ToggleStar(id): an id that *)
(* is not in the configuration, or a write of the file that fails, is       *)
(* answered 500 and the handler returns; the flag is assigned in the array  *)
(* that the task lists of the sweeps in flight share.  Then                 *)
(* UpdateStar(id, starred) under s.mu, then TriggerNow, whose goroutine     *)
(* takes slot p.                                                             *)
toggleStarHandler(id, ok, p) ==
    /\ CASE cpc.star = <<>> ->
              /\ IF \E i \in 1..Len(cfg.Tasks) : cfg.Tasks[i].ID = id
                 THEN /\ cfg' = [cfg EXCEPT !.Tasks = ToggleStar(@, id)]
                      /\ disk' \in WriteFile(disk, cfg', ok)
                      /\ loc' = StarInPlace(loc, IndexOf(cfg.Tasks, id))
                      /\ cpc' = [cpc EXCEPT !.star =
                                    IF ok
                                    THEN <<[id |-> id, at |-> "update",
                                            starred |-> ToggleStarValue(cfg.Tasks, id)]>>
                                    ELSE <<>>]
                 ELSE UNCHANGED <<cfg, disk, cpc, loc>>
              /\ UNCHANGED <<results, budget, pc>>
         [] cpc.star # <<>> /\ cpc.star[1].at = "update" ->
              /\ CanWrite(mu)
              /\ id = cpc.star[1].id
              /\ ok
              /\ results' = UpdateStar(results, cpc.star[1].id, cpc.star[1].starred)
              /\ cpc' = [cpc EXCEPT !.star[1].at = "trigger"]
              /\ UNCHANGED <<cfg, disk, budget, loc, pc>>
         [] cpc.star # <<>> /\ cpc.star[1].at = "trigger" ->
              /\ id = cpc.star[1].id
              /\ ok
              /\ GoRunOnce(p, cfg)
              /\ cpc' = [cpc EXCEPT !.star = <<>>]
              /\ UNCHANGED <<cfg, disk, results>>
    /\ UNCHANGED <<mu, issued, probes, resetAt, out, storeOk, now, ctxDone, runMu,
                   wakeAt, states, history, events, perf, mails, log, published,
                   removed, fresh, deletes>>

(* os.ReadFile of a configuration file that does not exist *)
NoFile == <<>>

(* Manager.LoadOrDefault: the configuration built when the file cannot be   *)
(* read; the literal names no NextTaskID, which is then the zero value       *)
DefaultConfig ==
    [Interval |-> DefaultInterval, AlertThreshold |-> DefaultThreshold,
     AlertCooldown |-> DefaultCooldown,
     Tasks |-> <<[ID |-> 1, Name |-> "baidu", URL |-> "https://www.baidu.com",
                  Starred |-> FALSE]>>,
     NextTaskID |-> 0]

(* model.Config{}, the configuration of a Manager that has loaded nothing *)
ZeroConfig ==
    [Interval |-> 0, AlertThreshold |-> 0, AlertCooldown |-> 0, Tasks |-> <<>>,
     NextTaskID |-> 0]

(* json.Unmarshal takes the content of the file: it is one whole document *)
Unmarshals(d) == d # NoFile /\ "Prefix" \notin DOMAIN d[1]

(* Manager.LoadOrDefault on a new Manager: the configuration in memory      *)
(* after the call, for the content d that os.ReadFile gives (NoFile when it *)
(* fails).  json.Unmarshal checks the whole input before it assigns, so a   *)
(* file that is empty or cut short leaves the zero configuration.           *)
LoadOrDefault(d) ==
    IF d = NoFile THEN DefaultConfig
    ELSE IF Unmarshals(d) THEN Normalize(d[1])
    ELSE ZeroConfig

(* The positions of the goroutines of a process that main has started, and  *)
(* of one that has ended in log.Fatal                                        *)
StartPc(procs) == [p \in procs |-> IF p = Sched THEN "loop" ELSE "idle"]
ExitPc(procs) == [p \in procs |-> "exit"]
Running == pc[Sched] # "exit"

(* The process starts (again) and main calls LoadOrDefault on a new         *)
(* Manager.  os.ReadFile gives the file (r) or fails, as it does when there *)
(* is none; then the default configuration is written, with the outcome ok. *)
(* When LoadOrDefault returns an error, of json.Unmarshal or of the write,  *)
(* main ends the process.                                                    *)
CallLoadOrDefault(r, ok) ==
    /\ r => disk # NoFile
    /\ cfg' = LoadOrDefault(IF r THEN disk ELSE NoFile)
    /\ disk' \in IF r THEN {disk} ELSE WriteFile(disk, cfg', ok)
    /\ pc' = IF (r /\ ~Unmarshals(disk)) \/ (~r /\ ~ok)
             THEN ExitPc(DOMAIN pc) ELSE StartPc(DOMAIN pc)
    /\ UNCHANGED <<locks, issued, probes, resetAt, out, storeOk, now, ctxDone, runMu,
                   loc, wakeAt, results, states, history, events, perf, mails,
                   log, published, removed, fresh, budget, deletes>>

(* strings.TrimSpace, on the names and URLs that are given to AddTask *)
TrimSpace(s) ==
    CASE s = " " -> ""
      [] s = " c " -> "c"
      [] s = " example.com" -> "example.com"
      [] OTHER -> s

(* Manager.AddTask: the URL stored, "http://" put before a URL without scheme *)
StoredURL(in) ==
    IF in.Prefixed THEN TrimSpace(in.Raw) ELSE "http://" \o TrimSpace(in.Raw)

(* Manager.AddTask: the checks that end the call with an error *)
AddTaskRejects(in) ==
    \/ TrimSpace(in.Name) = ""
    \/ TrimSpace(in.Raw) = ""
    \/ ~in.ParseOk
    \/ in.Host = <<>>
    \/ /\ ~in.IsIP
       /\ \/ Len(in.Host) = 1 /\ in.Host # <<"localhost">>
          \/ ~in.Resolves

(* Manager.AddTask: the task created, with the number of the id counter *)
NewTask(c, in) ==
    [ID |-> c.NextTaskID, Name |-> TrimSpace(in.Name), URL |-> StoredURL(in),
     Starred |-> FALSE]

(* Manager.AddTask(name, rawURL) with the outcome of the write of the file: *)
(* a rejected input returns before m.cfg is touched.  append writes the new *)
(* task behind the others in the array, or in a new array when the old one  *)
(* is full; the capacity is not modelled, so either may happen.             *)
CallAddTask(in, ok) ==
    /\ Len(issued) < MaxAdds
    /\ IF AddTaskRejects(in)
       THEN UNCHANGED <<cfg, disk, issued, loc>>
       ELSE /\ cfg' = [cfg EXCEPT !.NextTaskID = @ + 1,
                                  !.Tasks = Append(@, NewTask(cfg, in))]
            /\ disk' \in WriteFile(disk, cfg', ok)
            /\ issued' = Append(issued, NewTask(cfg, in).ID)
            /\ loc' \in {loc, Unshare(loc)}
    /\ UNCHANGED <<locks, probes, resetAt, out, storeOk, now, ctxDone, runMu, pc,
                   wakeAt, results, states, history, events, perf, mails,
                   log, published, removed, fresh, budget, deletes>>

(* Manager.DeleteTask(id) with the outcome of the write of the file; an id  *)
(* that no task has is not an error                                          *)
CallDeleteTask(id, ok) ==
    /\ cfg' = [cfg EXCEPT !.Tasks = DeleteTask(@, id)]
    /\ disk' \in WriteFile(disk, cfg', ok)
    /\ loc' = Unshare(loc)
    /\ UNCHANGED <<locks, issued, probes, resetAt, out, storeOk, now, ctxDone, runMu, pc,
                   wakeAt, results, states, history, events, perf, mails,
                   log, published, removed, fresh, budget, deletes>>

(* The ways a call of ResetToExample ends: the example file cannot be read  *)
(* or parsed, the write of the configuration file fails, or neither          *)
ResetOutcomes == {"ok", "noread", "nowrite"}

(* Manager.ResetToExample(examplePath), the example file holding example:   *)
(* m.cfg is assigned before the file is written                              *)
CallResetToExample(example, o) ==
    /\ cfg' = IF o = "noread" THEN cfg ELSE ResetToExample(example)
    /\ disk' \in IF o = "noread" THEN {disk} ELSE WriteFile(disk, cfg', o = "ok")
    /\ loc' = IF o = "noread" THEN loc ELSE Unshare(loc)
    /\ UNCHANGED <<locks, issued, probes, resetAt, out, storeOk, now, ctxDone, runMu, pc,
                   wakeAt, results, states, history, events, perf, mails,
                   log, published, removed, fresh, budget, deletes>>

(* Service.Reset(repo): the store is replaced by the new one, which holds   *)
(* the rows of its file, and the in-memory state is cleared                  *)
Reset ==
    /\ states' = <<>>
    /\ history' = <<>>
    /\ results' = <<>>
    /\ storeOk' = TRUE
    /\ resetAt' = Len(log)
    /\ removed' = removed \cup {results[k].ID : k \in 1..Len(results)}
    /\ fresh' = fresh \cup DOMAIN states

(* resetHandler, a step at a time.  The database is closed, from then on    *)
(* the engine's calls to the repository fail, and os.Remove removes its     *)
(* file (o = "ok") or fails (o = "noremove"): neither error is looked at,   *)
(* and a file that stays keeps its rows.  ResetToExample(example) ends as o *)
(* says and an error ends the handler; repository.New succeeds (o = "ok")   *)
(* or ends the handler (o = "noopen") and h.repo = repo, which a ClearLogs  *)
(* that is between its two statements does not follow; then Reset(repo)     *)
(* under s.mu, then TriggerNow, whose goroutine takes slot p.               *)
resetHandler(example, o, p) ==
    /\ CASE cpc.reset = "idle" ->
              /\ o \in {"ok", "noremove"}
              /\ storeOk' = FALSE
              /\ events' = IF o = "ok" THEN <<>> ELSE events
              /\ perf' = IF o = "ok" THEN <<>> ELSE perf
              /\ cpc' = [cpc EXCEPT !.reset = "config"]
              /\ UNCHANGED <<cfg, disk, states, history, results, resetAt, removed,
                             fresh, budget, loc, pc>>
         [] cpc.reset = "config" ->
              /\ o \in ResetOutcomes
              /\ cfg' = IF o = "noread" THEN cfg ELSE ResetToExample(example)
              /\ disk' \in IF o = "noread" THEN {disk}
                            ELSE WriteFile(disk, cfg', o = "ok")
              /\ loc' = IF o = "noread" THEN loc ELSE Unshare(loc)
              /\ cpc' = [cpc EXCEPT !.reset = IF o = "ok" THEN "open" ELSE "idle"]
              /\ UNCHANGED <<storeOk, events, perf, states, history, results, resetAt,
                             removed, fresh, budget, pc>>
         [] cpc.reset = "open" ->
              /\ o \in {"ok", "noopen"}
              /\ cpc' = [cpc EXCEPT !.reset = IF o = "ok" THEN "reset" ELSE "idle",
                                     !.clear = IF o = "ok" /\ @ = "perf"
                                               THEN "closed" ELSE @]
              /\ UNCHANGED <<cfg, disk, storeOk, events, perf, states, history, results,
                             resetAt, removed, fresh, budget, loc, pc>>
         [] cpc.reset = "reset" ->
              /\ o = "ok"
              /\ CanWrite(mu)
              /\ Reset
              /\ cpc' = [cpc EXCEPT !.reset = "trigger"]
              /\ UNCHANGED <<cfg, disk, events, perf, budget, loc, pc>>
         [] cpc.reset = "trigger" ->
              /\ o = "ok"
              /\ GoRunOnce(p, cfg)
              /\ cpc' = [cpc EXCEPT !.reset = "idle"]
              /\ UNCHANGED <<cfg, disk, storeOk, events, perf, states, history, results,
                             resetAt, removed, fresh>>
    /\ UNCHANGED <<mu, issued, probes, out, now, ctxDone, runMu, wakeAt, mails, log,
                   published, deletes>>

(* Variant of sendMail: a failed send is tried again *)
sendMailRetry(i, outcome) ==
    /\ i \in 1..Len(mails)
    /\ mails[i].State = "running"
    /\ mails' = IF outcome = "failed"
                THEN Append([mails EXCEPT ![i].State = outcome],
                            [mails[i] EXCEPT !.State = "running"])
                ELSE [mails EXCEPT ![i].State = outcome]
    /\ UNCHANGED <<aux, out, storeOk, cfg, now, ctxDone, runMu, pc, loc, wakeAt, results,
                   states, history, events, perf, log, published,
                   removed, fresh, budget, deletes>>

(* The goroutine of the i-th mail: sendMail returns, with nil ("sent") or   *)
(* with an error ("failed"); the caller drops the value.  A send that hangs *)
(* is a goroutine that never takes this step.                                *)
sendMail(i, outcome) ==
    /\ i \in 1..Len(mails)
    /\ mails[i].State = "running"
    /\ mails' = [mails EXCEPT ![i].State = outcome]
    /\ UNCHANGED <<aux, out, storeOk, cfg, now, ctxDone, runMu, pc, loc, wakeAt, results,
                   states, history, events, perf, log, published,
                   removed, fresh, budget, deletes>>

(* The database of the repository starts or stops taking writes *)
StoreFlip ==
    /\ storeOk' = ~storeOk
    /\ UNCHANGED <<aux, out, cfg, now, ctxDone, runMu, pc, loc, wakeAt, results,
                   states, history, events, perf, mails, log, published,
                   removed, fresh, budget, deletes>>

(* A table after DELETE FROM, whose error is not looked at *)
Delete(table, ok) == IF ok THEN <<>> ELSE table

(* The repository of the handlers takes writes: h.repo is the repository of *)
(* the engine, but for the time between the assignment of the new one in    *)
(* resetHandler and Reset(repo)                                              *)
RepoOk == storeOk \/ cpc.reset = "reset"

(* clearLogsHandler: h.repo.ClearLogs(), one statement at a time: DELETE    *)
(* FROM event_logs, then DELETE FROM performance_logs.  The receiver is the  *)
(* repository h.repo names when the handler makes the call, for both        *)
(* statements: cpc.clear is "perf" between the two while h.repo still names *)
(* that repository, and "closed" once resetHandler has assigned a new one   *)
(* (the one of the call was closed before that, so its DELETE fails).       *)
ClearLogs ==
    /\ IF cpc.clear = "idle"
       THEN /\ events' = Delete(events, RepoOk)
            /\ cpc' = [cpc EXCEPT !.clear = "perf"]
            /\ UNCHANGED perf
       ELSE /\ perf' = Delete(perf, cpc.clear = "perf" /\ RepoOk)
            /\ cpc' = [cpc EXCEPT !.clear = "idle"]
            /\ UNCHANGED events
    /\ UNCHANGED <<mu, disk, issued, probes, resetAt, out, storeOk, cfg, now, ctxDone,
                   runMu, pc, loc, wakeAt, results, states, history, mails, log,
                   published, removed, fresh, budget, deletes>>

(* Time passes, by d seconds *)
Tick(d) ==
    /\ d > 0
    /\ now' = now + d
    /\ UNCHANGED <<aux, out, storeOk, cfg, ctxDone, runMu, pc, loc, wakeAt, results, states,
                   history, events, perf, mails, log,
                   published, removed, fresh, budget, deletes>>

(* Time passes by a second between two readings of the clock in a round of  *)
(* runBatch (time.Since in the decision, time.Now for LastAlertTime and for *)
(* the event row), or between the return of runOnce and the arming of the   *)
(* timer in Start; the seconds that pass this way after a full ten are at   *)
(* most MaxDrift                                                             *)
Elapse ==
    /\ \E p \in DOMAIN pc : pc[p] \in {"mulock", "stamp", "alert", "recover", "timer"}
    /\ now % 10 < MaxDrift
    /\ Tick(1)

----------------------------------------------------------------------------
(* A handler calls Results() (c = "reader") or RemoveTaskState              *)
(* (c = "remover"): the call has begun and asks for s.mu                    *)
CallBegin(c) ==
    /\ cpc[c] = "idle"
    /\ cpc.left[c] > 0
    /\ cpc' = [cpc EXCEPT ![c] = "lock", !.left[c] = @ - 1]
    /\ UNCHANGED <<disk, issued, probes, resetAt, mu, out, storeOk, cfg, now,
                   ctxDone, runMu, pc, loc, wakeAt, results, states, history,
                   events, perf, mails, log, published, removed, fresh, budget,
                   deletes>>

(* Results: s.mu.RLock() *)
ResultsRLock ==
    /\ cpc.reader = "lock"
    /\ CanRead(mu)
    /\ mu' = [mu EXCEPT !.r = @ + 1]
    /\ cpc' = [cpc EXCEPT !.reader = "in"]
    /\ UNCHANGED <<disk, issued, probes, resetAt, out, storeOk, cfg, now,
                   ctxDone, runMu, pc, loc, wakeAt, results, states, history,
                   events, perf, mails, log, published, removed, fresh, budget,
                   deletes>>

(* Results: the copy, the deferred s.mu.RUnlock() and the return *)
ResultsReturn ==
    /\ cpc.reader = "in"
    /\ out' = Results
    /\ mu' = [mu EXCEPT !.r = @ - 1]
    /\ cpc' = [cpc EXCEPT !.reader = "idle"]
    /\ UNCHANGED <<disk, issued, probes, resetAt, storeOk, cfg, now,
                   ctxDone, runMu, pc, loc, wakeAt, results, states, history,
                   events, perf, mails, log, published, removed, fresh, budget,
                   deletes>>

(* RemoveTaskState: s.mu.Lock() *)
RemoveLock ==
    /\ cpc.remover = "lock"
    /\ CanWrite(mu)
    /\ mu' = [mu EXCEPT !.w = Remover]
    /\ cpc' = [cpc EXCEPT !.remover = "in"]
    /\ UNCHANGED <<disk, issued, probes, resetAt, out, storeOk, cfg, now,
                   ctxDone, runMu, pc, loc, wakeAt, results, states, history,
                   events, perf, mails, log, published, removed, fresh, budget,
                   deletes>>

(* RemoveTaskState(id, url): the deletes, the deferred s.mu.Unlock() and    *)
(* the return                                                                *)
RemoveReturn(id, url) ==
    /\ cpc.remover = "in"
    /\ RemoveTaskState(id, url)
    /\ mu' = [mu EXCEPT !.w = NoProc]
    /\ cpc' = [cpc EXCEPT !.remover = "idle"]
    /\ UNCHANGED <<disk, issued, probes, resetAt, out, storeOk, cfg, now,
                   ctxDone, runMu, pc, loc, wakeAt, events, perf, mails, log,
                   published, budget, deletes>>

(* The state after New and LoadOrDefault, for a configuration c and a run of *)
(* n runOnce calls                                                           *)
InitCalls(c, n, procs, calls) ==
    /\ cfg = c
    /\ now = 0
    /\ ctxDone = FALSE
    /\ runMu = NoProc
    /\ pc = StartPc(procs)
    /\ loc = [p \in procs |-> IdleLoc]
    /\ wakeAt = 0
    /\ results = <<>>
    /\ states = <<>>
    /\ history = <<>>
    /\ events = <<>>
    /\ perf = <<>>
    /\ mails = <<>>
    /\ log = <<>>
    /\ published = [ids |-> {}, coll |-> <<>>]
    /\ removed = {}
    /\ fresh = {}
    /\ budget = n
    /\ deletes = MaxDeletes
    /\ out = <<>>
    /\ storeOk = TRUE
    /\ disk = saveLocked(c)
    /\ issued = <<>>
    /\ probes = <<>>
    /\ resetAt = 0
    /\ mu = MuFree
    /\ cpc = [NoCalls EXCEPT !.left = [reader |-> calls, remover |-> calls]]

(* The same without calls of Results and RemoveTaskState of their own *)
InitProcs(c, n, procs) == InitCalls(c, n, procs, 0)

(* The same with the goroutine slots of the bound MaxTriggers *)
InitWith(c, n) == InitProcs(c, n, Procs)

TaskA == [ID |-> 1, Name |-> "a", URL |-> "u1", Starred |-> FALSE]
TaskB == [ID |-> 2, Name |-> "b", URL |-> "u2", Starred |-> FALSE]
TaskC == [ID |-> 2, Name |-> "b", URL |-> "u1", Starred |-> TRUE]

Config(tasks, threshold, cooldownMin) ==
    [Interval |-> 5, AlertThreshold |-> threshold, AlertCooldown |-> cooldownMin,
     Tasks |-> tasks, NextTaskID |-> MaxID(tasks) + 1]

TaskD == [ID |-> 2, Name |-> "a", URL |-> "u2", Starred |-> FALSE]

Tasks2 == {<<TaskA, TaskB>>, <<TaskA, TaskC>>}

(* The engine with the scheduler loop, manual triggers and task deletion;   *)
(* every check fails, time passes while the scheduler waits for its timer.  *)
Init == \E tasks \in Tasks2 : InitWith(Config(tasks, 1, 0), MaxSweeps)

Sweep(p) ==
    \/ runOnceLock(p)
    \/ runBatchBegin(p)
    \/ runBatchCollect(p)
    \/ runBatchPublish(p)
    \/ runOnceUnlock(p)

Next ==
    \/ Start
    \/ StartWait
    \/ \E p \in Triggers : TriggerNow(p)
    \/ \E p \in Procs : Sweep(p)
    \/ \E p \in Procs : \E k \in 1..2 : checkURL(p, k, RespErr)
    \/ \E id \in 0..2 : \E ok \in BOOLEAN : deleteTaskHandler(id, ok)
    \/ /\ pc[Sched] = "wait"
       /\ Tick(wakeAt - now)

Spec == Init /\ [][Next]_vars

(* The scheduler loop alone on one task, whose checks succeed or fail;      *)
(* successive sweeps are 30 or 40 seconds apart.                             *)
SMConfigs == {Config(<<TaskA>>, 1, 1), Config(<<TaskA>>, 2, 1), Config(<<TaskA>>, 3, 0)}

InitSM == \E c \in SMConfigs : InitWith(c, SMSweeps)

Waiting == pc[Sched] = "wait" /\ now < wakeAt

NextSM ==
    \/ Start
    \/ StartWait
    \/ Sweep(Sched)
    \/ \E r \in {RespOk, RespErr} : checkURL(Sched, 1, r)
    \/ \E d \in {30, 40} : Waiting /\ Tick(d)
    \/ Elapse

SpecSM == InitSM /\ [][NextSM]_vars

(* The scheduler loop alone on one task that fails on every sweep, with     *)
(* threshold 3 and a cooldown of 60 minutes; successive sweeps are about     *)
(* half an hour apart.                                                       *)
InitHour == InitWith(Config(<<TaskA>>, 3, 60), HourSweeps)

NextHour ==
    \/ Start
    \/ StartWait
    \/ Sweep(Sched)
    \/ checkURL(Sched, 1, RespErr)
    \/ \E d \in {1799, 1800, 1801} : Waiting /\ Tick(d)
    \/ Elapse

SpecHour == InitHour /\ [][NextHour]_vars

(* The scheduler loop alone on two tasks with the same URL: the first one's *)
(* checks succeed or fail, the second one's are slow.                        *)
InitHist == InitWith(Config(<<TaskA, TaskC>>, 2, 0), HistSweeps)

NextHist ==
    \/ Start
    \/ StartWait
    \/ Sweep(Sched)
    \/ \E r \in {RespOk, RespErr} : checkURL(Sched, 1, r)
    \/ checkURL(Sched, 2, RespSlow)
    \/ Waiting /\ Tick(wakeAt - now)

SpecHist == InitHist /\ [][NextHist]_vars

(* The scheduler loop on two tasks whose checks succeed or fail, and a      *)
(* handler that calls Results() and changes what it was given.               *)
InitCopy == InitWith(Config(<<TaskA, TaskB>>, 1, 0), CopySweeps)

CallerStep ==
    \/ CallerSort
    \/ \E i \in 1..2 : CallerSetEntry(i)
    \/ \E i \in 1..2 : CallerSetDot(i, 1, "edited")

NextCopy ==
    \/ Start
    \/ StartWait
    \/ Sweep(Sched)
    \/ \E k \in 1..2 : \E r \in {RespOk, RespErr} : checkURL(Sched, k, r)
    \/ Waiting /\ Tick(wakeAt - now)
    \/ CallResults
    \/ CallerStep

SpecCopy == InitCopy /\ [][NextCopy]_vars

(* The scheduler loop and the sweeps updateSettingsHandler triggers, on one *)
(* task whose checks succeed or fail, while the settings are changed (a     *)
(* sweep reads them when it is called) and the task is deleted; the sweeps  *)
(* of the scheduler are 40 seconds apart.                                    *)
InitSet == InitWith(Config(<<TaskA>>, 1, 1), SetSweeps)

Settings(threshold, cooldownMin) ==
    [Interval |-> 0, AlertThreshold |-> threshold, AlertCooldown |-> cooldownMin]

SettingsInputs == {Settings(2, 0), Settings(0, -1)}

NextSet ==
    \/ Start
    \/ StartWait
    \/ \E p \in Triggers : TriggerNow(p)
    \/ \E p \in Procs : Sweep(p)
    \/ \E p \in Procs : \E r \in {RespOk, RespErr} : checkURL(p, 1, r)
    \/ \E in \in SettingsInputs : UpdateSettings(in, TRUE)
    \/ \E ok \in BOOLEAN : deleteTaskHandler(1, ok)
    \/ Waiting /\ Tick(40)

SpecSet == InitSet /\ [][NextSet]_vars

(* The scheduler loop and a manual trigger on one task whose checks fail,   *)
(* while the settings are changed and the task is deleted: a sweep runs     *)
(* with the task list and the settings read when it was called, which may   *)
(* be out of date when it gets the sweep lock.                               *)
InitStale == InitWith(Config(<<TaskA>>, 1, 1), StaleSweeps)

NextStale ==
    \/ Start
    \/ StartWait
    \/ \E p \in Triggers : TriggerNow(p)
    \/ \E p \in Procs : Sweep(p)
    \/ \E p \in Procs : checkURL(p, 1, RespErr)
    \/ \E in \in {Settings(0, -1), Settings(1, 1)} : UpdateSettings(in, TRUE)
    \/ \E ok \in BOOLEAN : deleteTaskHandler(1, ok)
    \/ Waiting /\ Tick(40)
    \/ Elapse

SpecStale == InitStale /\ [][NextStale]_vars

(* The scheduler loop and a manual trigger on two tasks, and the            *)
(* cancellation of the context of Start.  Every goroutine that can take a   *)
(* step takes it in the end: the Go scheduler runs every runnable goroutine,*)
(* sync.Mutex hands the lock to a waiter, and a check returns within the    *)
(* timeout of the HTTP client.  Nothing is assumed about the clock.         *)
InitStop == InitWith(Config(<<TaskA, TaskB>>, 1, 0), StopSweeps)

NextStop ==
    \/ Start
    \/ StartWait
    \/ Cancel
    \/ \E p \in Triggers : TriggerNow(p)
    \/ \E p \in Procs : Sweep(p)
    \/ \E p \in Procs : \E k \in 1..2 : checkURL(p, k, RespErr)
    \/ Waiting /\ Tick(wakeAt - now)

FairSweeps ==
    /\ WF_vars(Start)
    /\ WF_vars(StartWait)
    /\ \A p \in Procs : WF_vars(Sweep(p))
    /\ \A p \in Procs : \A k \in 1..2 : WF_vars(checkURL(p, k, RespErr))

SpecStop == InitStop /\ [][NextStop]_vars /\ FairSweeps

(* The scheduler loop on one task whose checks succeed or fail, with        *)
(* threshold 1 and a cooldown of one minute, sweeps 40 seconds apart; the   *)
(* mails succeed, fail or never return, the database takes writes or not.   *)
(* The goroutines of the loop and of the checks take their steps and time   *)
(* passes; nothing is assumed about the goroutines of the mails.            *)
InitSide == InitWith(Config(<<TaskA>>, 1, 1), SideSweeps)

NextSide ==
    \/ Start
    \/ StartWait
    \/ Sweep(Sched)
    \/ \E r \in {RespOk, RespErr} : checkURL(Sched, 1, r)
    \/ Waiting /\ Tick(40)
    \/ \E i \in 1..Len(mails) : \E o \in {"sent", "failed"} : sendMail(i, o)
    \/ StoreFlip
    \/ ClearLogs
    \/ Elapse

FairSide ==
    /\ WF_vars(Start)
    /\ WF_vars(StartWait)
    /\ WF_vars(Sweep(Sched))
    /\ WF_vars(\E r \in {RespOk, RespErr} : checkURL(Sched, 1, r))
    /\ WF_vars(Waiting /\ Tick(40))

SpecSide == InitSide /\ [][NextSide]_vars /\ FairSide

(* The same engine for one sweep more, with nothing assumed about who takes *)
(* a step                                                                     *)
InitRetry == InitWith(Config(<<TaskA>>, 1, 1), RetrySweeps)

SpecRetry == InitRetry /\ [][NextSide]_vars

----------------------------------------------------------------------------
(* Reading the evaluation log *)

(* The number of consecutive failed checks of task id up to entry i of lg,  *)
(* counted from the last success or from the creation of its TaskState      *)
RECURSIVE FailRun(_, _, _)
FailRun(lg, i, id) ==
    IF i = 0 THEN 0
    ELSE IF lg[i].ID # id THEN FailRun(lg, i - 1, id)
    ELSE IF lg[i].IsSuccess THEN 0
    ELSE IF ~lg[i].HadState THEN 1
    ELSE 1 + FailRun(lg, i - 1, id)

(* The same count before entry i was evaluated *)
FailRunBefore(lg, i) ==
    IF lg[i].HadState THEN FailRun(lg, i - 1, lg[i].ID) ELSE 0

Failed(i) == ~log[i].IsSuccess

(* The rows of the given type written from the decision of entry i of the   *)
(* log until the decision of the next entry, where successive decisions are *)
(* at different times                                                        *)
RowsOf(i, type) ==
    {k \in 1..Len(events) :
        /\ events[k].Type = type
        /\ events[k].EventTime >= log[i].Time
        /\ i < Len(log) => events[k].EventTime < log[i + 1].Time}
AlertRows == SelectSeq(events, LAMBDA r : r.Type = AlertType)
RecoverRows == SelectSeq(events, LAMBDA r : r.Type = RecoverType)

InBatch(p) == pc[p] \in {"batch", "collect"} \/ InRound(p)

(* A round of runBatch is between its decision and its last call to the     *)
(* repository; its entry is the last one of the log                          *)
Open == \E p \in DOMAIN pc : pc[p] \in {"stamp", "alert", "recover", "resolve"}

(* The round of entry i of the log has made its calls to the repository *)
Done(i) == i < Len(log) \/ ~Open

----------------------------------------------------------------------------
(* C1: at most one sweep executes at any instant: over the scheduler loop   *)
(* and the TriggerNow goroutines, the number of runBatch executions between *)
(* entry and publication never exceeds 1.                                    *)
C1_OneSweepAtATime == Cardinality({p \in Procs : InBatch(p)}) <= 1

(* A sweep is collecting results while another runOnce waits for the lock *)
C1_Witness ==
    \E p, q \in Procs :
        /\ p # q
        /\ pc[p] = "collect"
        /\ loc[p].newResults # <<>>
        /\ pc[q] = "lock"

(* C2: after K consecutive failed sweeps of a target, counted from a fresh  *)
(* or just-recovered TaskState, with K below the threshold, the counter is  *)
(* K, the target is not down and the sweep emitted no alert row and no mail.*)
C2_BelowThreshold ==
    \A i \in 1..Len(log) :
        LET e == log[i]
            K == FailRun(log, i, e.ID)
        IN  (Failed(i) /\ K < cfg.AlertThreshold) =>
                /\ e.After.ConsecutiveFails = K
                /\ ~e.After.IsDown
                /\ e.Alerts = 0
                /\ e.Mails = 0
                /\ RowsOf(i, AlertType) = {}
                /\ (\A j \in (i + 1)..Len(log) : log[j].ID # e.ID) =>
                        states[e.ID] = e.After

(* Threshold 3, two failures in a row after a recovery *)
C2_Witness ==
    \E i \in 1..Len(log) :
        /\ Failed(i)
        /\ cfg.AlertThreshold >= 2
        /\ FailRun(log, i, log[i].ID) = cfg.AlertThreshold - 1
        /\ \E j \in 1..(i - 1) : log[j].Recoveries = 1

(* C3: the sweep in which the run of failures reaches the threshold emits   *)
(* exactly one alert, sets IsDown and LastAlertTime = now (the clock as     *)
(* read by the assignment, between the decision and the event row),         *)
(* whatever the cooldown.                                                    *)
C3_CrossingAlert ==
    /\ [](\A i \in 1..Len(log) :
             LET e == log[i]
             IN  (Failed(i) /\ FailRun(log, i, e.ID) = cfg.AlertThreshold) =>
                     /\ e.Before.ConsecutiveFails = cfg.AlertThreshold - 1
                     /\ e.After.ConsecutiveFails = cfg.AlertThreshold
                     /\ e.Alerts = 1
                     /\ e.After.IsDown
                     /\ Done(i) =>
                            /\ e.Mails = 1
                            /\ Cardinality(RowsOf(i, AlertType)) = 1
                            /\ events[e.AlertRow].Fails = cfg.AlertThreshold
                            /\ e.Time <= e.After.LastAlertTime
                            /\ e.After.LastAlertTime <= events[e.AlertRow].EventTime)
    /\ [][\A p \in Procs :
              (pc[p] = "stamp" /\ pc'[p] = "alert") =>
                  /\ states'[loc[p].cur[1].res.ID].LastAlertTime = now
                  /\ log'[Len(log)].After = states'[loc[p].cur[1].res.ID]]_vars

(* A crossing within the cooldown of the previous alert *)
C3_Witness ==
    \E i \in 1..Len(log) :
        /\ Failed(i)
        /\ FailRun(log, i, log[i].ID) = cfg.AlertThreshold
        /\ log[i].Before.LastAlertTime # ZeroTime
        /\ log[i].Time - log[i].Before.LastAlertTime <= cfg.AlertCooldown * Minute
        /\ log[i].Alerts = 1

(* C4: a successful sweep resets the counter and IsDown; after N >=         *)
(* threshold failures it emits exactly one recovery row and resolves the    *)
(* alerts of the target once; on a target that is not down it emits none.   *)
C4_Recovery ==
    \A i \in 1..Len(log) :
        LET e == log[i]
            N == FailRunBefore(log, i)
        IN  e.IsSuccess =>
                /\ e.After.ConsecutiveFails = 0
                /\ ~e.After.IsDown
                /\ e.Alerts = 0
                /\ IF N >= cfg.AlertThreshold
                   THEN /\ e.Recoveries = 1
                        /\ Done(i) =>
                               /\ e.Resolves = 1
                               /\ e.Mails = 1
                               /\ RowsOf(i, RecoverType) = {e.RecoverRow}
                               /\ \A k \in 1..e.RecoverRow :
                                      events[k].Type = AlertType => events[k].IsResolved
                   ELSE /\ e.Recoveries = 0
                        /\ e.Resolves = 0
                        /\ e.Mails = 0
                        /\ RowsOf(i, RecoverType) = {}

(* A success after more failures than the threshold *)
C4_Witness ==
    \E i \in 1..Len(log) :
        /\ log[i].IsSuccess
        /\ FailRunBefore(log, i) > cfg.AlertThreshold
        /\ log[i].Recoveries = 1
        /\ \E j \in 1..Len(log) : log[j].IsSuccess /\ log[j].Recoveries = 0

(* C5 as stated: threshold 3, cooldown 60 minutes, every sweep fails: the   *)
(* alert of the third sweep is at T; no sweep before T+60min alerts and the *)
(* first sweep at a time >= T+60min emits one alert.                         *)
C5_AsStated ==
    Len(log) >= 3 =>
        LET T == log[3].After.LastAlertTime
            due == T + 60 * Minute
        IN  /\ log[3].Alerts = 1
            /\ \A i \in 4..Len(log) :
                   /\ log[i].Time < due => log[i].Alerts = 0
                   /\ (log[i].Time >= due /\ log[i - 1].Time < due) => log[i].Alerts = 1

(* C5 as amended: the first sweep at a time strictly later than T+60min     *)
(* emits exactly one alert; a sweep at T+60min or earlier emits none.        *)
C5_StrictCooldown ==
    Len(log) >= 3 =>
        LET T == log[3].After.LastAlertTime
            due == T + 60 * Minute
        IN  /\ log[3].Alerts = 1
            /\ cfg.AlertThreshold = 3 /\ cfg.AlertCooldown = 60
            /\ \A i \in 4..Len(log) :
                   /\ log[i].Time <= due =>
                          /\ log[i].Alerts = 0
                          /\ RowsOf(i, AlertType) = {}
                   /\ (log[i].Time > due /\ log[i - 1].Time <= due) =>
                          /\ log[i].Alerts = 1
                          /\ Done(i) => Cardinality(RowsOf(i, AlertType)) = 1

(* A sweep exactly 60 minutes after the alert, silent, and an alert later *)
C5_Witness ==
    /\ Len(log) >= 3
    /\ \E i \in 4..Len(log) :
           /\ log[i].Time = log[3].After.LastAlertTime + 60 * Minute
           /\ log[3].After.LastAlertTime > log[3].Time
           /\ log[i].Alerts = 0
           /\ \E j \in (i + 1)..Len(log) : log[j].Alerts = 1

FirstFiveFail == Len(log) >= 5 /\ \A i \in 1..5 : Failed(i)

(* C6: threshold 3 and cooldown 0: every failed sweep at or above the       *)
(* threshold alerts; failures on sweeps 1..5 give alerts at sweeps 3, 4, 5. *)
C6_ZeroCooldown ==
    /\ \A i \in 1..Len(log) :
           (Failed(i) /\ cfg.AlertThreshold = 3 /\ cfg.AlertCooldown = 0) =>
               log[i].Alerts = IF FailRun(log, i, log[i].ID) >= 3 THEN 1 ELSE 0
    /\ (FirstFiveFail /\ cfg.AlertThreshold = 3 /\ cfg.AlertCooldown = 0) =>
           /\ [i \in 1..5 |-> log[i].Alerts] = <<0, 0, 1, 1, 1>>
           /\ (Len(log) = 5 /\ ~Open) =>
                  [k \in 1..Len(AlertRows) |-> AlertRows[k].Fails] = <<3, 4, 5>>

(* Five failed sweeps with threshold 3 and cooldown 0 *)
C6_Witness ==
    /\ FirstFiveFail
    /\ Len(log) = 5
    /\ cfg.AlertThreshold = 3
    /\ cfg.AlertCooldown = 0
    /\ Len(AlertRows) = 3

Scenario7 ==
    /\ Len(log) >= 5
    /\ cfg.AlertThreshold = 2
    /\ cfg.AlertCooldown = 1
    /\ \A i \in 1..4 : Failed(i)
    /\ log[5].IsSuccess
    /\ log[3].Time = log[2].After.LastAlertTime + 30
    /\ log[4].Time = log[2].After.LastAlertTime + 70

(* C7: threshold 2, cooldown 1 minute: fail, fail (alert 1, down), fail 30s *)
(* after alert 1 (no alert), fail 70s after alert 1 (alert 2), success      *)
(* (fails 0, up, one recovery): two alerts and one recovery in all.         *)
C7_EndToEnd ==
    Scenario7 =>
        /\ [i \in 1..5 |-> log[i].After.ConsecutiveFails] = <<1, 2, 3, 4, 0>>
        /\ [i \in 1..5 |-> log[i].After.IsDown] = <<FALSE, TRUE, TRUE, TRUE, FALSE>>
        /\ [i \in 1..5 |-> log[i].Alerts] = <<0, 1, 0, 1, 0>>
        /\ [i \in 1..5 |-> log[i].Recoveries] = <<0, 0, 0, 0, 1>>
        /\ (Len(log) = 5 /\ ~Open) =>
               /\ Len(AlertRows) = 2
               /\ Len(RecoverRows) = 1
               /\ [k \in 1..3 |-> events[k].Type] = <<AlertType, AlertType, RecoverType>>
               /\ RowsOf(2, AlertType) = {1}
               /\ RowsOf(4, AlertType) = {2}
               /\ RowsOf(5, RecoverType) = {3}
               /\ Len(mails) = 3
               /\ states[1] = [ConsecutiveFails |-> 0, IsDown |-> FALSE,
                               LastAlertTime |-> log[4].After.LastAlertTime]
               /\ log[4].After.LastAlertTime >= log[4].Time

(* The five sweeps of the scenario have been evaluated *)
C7_Witness ==
    /\ Scenario7
    /\ Len(log) = 5
    /\ pc[Sched] = "wait"
    /\ log[2].After.LastAlertTime > log[2].Time

(* C8: the history of every URL has at most 10 entries, and an append to a  *)
(* full history drops the oldest entry and keeps the other 9 in order,      *)
(* followed by the new one, also when two targets share the URL.            *)
C8_HistoryFifo ==
    /\ \A u \in DOMAIN history : Len(history[u]) <= 10
    /\ \A k \in 1..Len(results) : Len(results[k].HistoryDots) <= 10
    /\ \A i \in 1..Len(log) :
           LET e == log[i]
           IN  IF Len(e.HisBefore) = 10
               THEN e.HisAfter = Tail(e.HisBefore) \o <<e.Color>>
               ELSE e.HisAfter = Append(e.HisBefore, e.Color)

(* Both targets of the shared URL have appended to a full history whose     *)
(* oldest entry differs from the new one                                     *)
C8_Witness ==
    \E i, j \in 1..Len(log) :
        /\ log[i].ID = 1 /\ log[j].ID = 2
        /\ log[i].URL = log[j].URL
        /\ Len(log[i].HisBefore) = 10 /\ Len(log[j].HisBefore) = 10
        /\ log[i].HisBefore[1] # log[i].Color
        /\ Len(history[log[i].URL]) = 10

(* The step of deleteTaskHandler that is the call RemoveTaskState(id, delURL) *)
RemoveStep(id) == cpc.del # <<>> /\ deleteTaskHandler(id, TRUE)

(* What holds when RemoveTaskState(id, url) returns *)
Removed(id, url) ==
    /\ id \notin DOMAIN states'
    /\ url \notin DOMAIN history'
    /\ \A k \in 1..Len(results') : results'[k].ID # id

(* C9: when RemoveTaskState(id, url) returns there is no TaskState for id,  *)
(* no history for url and no Result of id in the published collection; the *)
(* next result processed for id is evaluated from the zero TaskState.       *)
C9_RemoveClears ==
    /\ [](\A i \in 1..Len(log) :
             log[i].Fresh => (~log[i].HadState /\ log[i].Before = ZeroState))
    /\ [](\A id \in fresh : id \notin DOMAIN states)
    /\ [][\A id \in 1..2 :
             RemoveStep(id) => Removed(id, cpc.del[1].url)]_vars

(* A target with a counter of 1 or more is removed while a sweep is in      *)
(* flight, and that sweep then evaluates a result for the same id           *)
C9_Witness ==
    \E i, j \in 1..Len(log) :
        /\ j < i
        /\ log[j].ID = log[i].ID
        /\ log[j].After.ConsecutiveFails >= 1
        /\ log[i].Fresh
        /\ log[i].After.ConsecutiveFails = 1

RECURSIVE FilterIdSet(_, _)
FilterIdSet(rs, ids) ==
    IF rs = <<>> THEN <<>>
    ELSE IF Head(rs).ID \in ids
         THEN FilterIdSet(Tail(rs), ids)
         ELSE <<Head(rs)>> \o FilterIdSet(Tail(rs), ids)

(* C10: whatever a sweep in progress has collected, Results() returns the   *)
(* whole collection of the last publication, less the targets removed       *)
(* since: one Result per task of that sweep, none of another sweep.         *)
C10_WholeSnapshot ==
    /\ Results = FilterIdSet(published.coll, removed)
    /\ {Results[k].ID : k \in 1..Len(Results)} = published.ids \ removed
    /\ Len(Results) = Cardinality(published.ids \ removed)

(* A sweep has collected one of its two results while Results() returns the *)
(* two results of the previous sweep                                         *)
C10_Witness ==
    \E p \in Procs :
        /\ pc[p] = "collect"
        /\ Len(loc[p].newResults) = 1
        /\ Len(loc[p].tasks) = 2
        /\ Len(Results) = 2
        /\ Results[1] # loc[p].newResults[1]

(* C11: the value Results() returns is independent of the engine's state:  *)
(* no change a caller makes to the returned collection, to one of its       *)
(* entries or to the elements of an entry's history changes what the engine *)
(* stores or what a later Results() returns.                                 *)
C11_IndependentCopy ==
    [][CallerStep => /\ results' = results
                     /\ Results' = Results
                     /\ history' = history
                     /\ states' = states]_vars

(* The part of C11 that holds: the collection and its entries are copies *)
C11_EntriesCopied ==
    [][(CallerSort \/ \E i \in 1..2 : CallerSetEntry(i)) =>
           /\ results' = results
           /\ Results' = Results]_vars

(* C12: after every evaluation of a target, IsDown is true if and only if  *)
(* ConsecutiveFails is at least the effective threshold used in that        *)
(* evaluation, also when the threshold differs from one sweep to the next.  *)
C12_DownIffAtThreshold ==
    \A i \in 1..Len(log) :
        log[i].After.IsDown <=> log[i].After.ConsecutiveFails >= log[i].Threshold

(* The part of C12 that holds: with the threshold of the previous           *)
(* evaluation of the same TaskState                                          *)
C12_FixedThreshold ==
    \A i \in 1..Len(log) :
        (\A j \in 1..i : log[j].ID = log[i].ID => log[j].Threshold = log[i].Threshold)
            => (log[i].After.IsDown <=>
                    log[i].After.ConsecutiveFails >= log[i].Threshold)

(* The last evaluation of task id in the log, 0 when there is none *)
RECURSIVE LastEval(_, _, _)
LastEval(lg, i, id) ==
    IF i = 0 THEN 0
    ELSE IF lg[i].ID = id THEN i
    ELSE LastEval(lg, i - 1, id)

(* C13: for every id with a TaskState, ConsecutiveFails is 0 if and only   *)
(* if the most recent processed check of that id succeeded; it is never     *)
(* negative, and after f consecutive failures since the last success or    *)
(* the creation of the state it is f.  No state is seen before its first   *)
(* result was applied.                                                       *)
C13_FailCounter ==
    \A id \in DOMAIN states :
        LET last == LastEval(log, Len(log), id)
        IN  /\ last > 0
            /\ states[id] = log[last].After
            /\ states[id].ConsecutiveFails >= 0
            /\ states[id].ConsecutiveFails = 0 <=> log[last].IsSuccess
            /\ states[id].ConsecutiveFails = FailRun(log, Len(log), id)

(* After two failures in a row the task is removed while a sweep is in     *)
(* flight; the third failure creates the state anew and counts 1            *)
C13_Witness ==
    /\ 1 \in DOMAIN states
    /\ states[1].ConsecutiveFails = 1
    /\ Len(log) = 3
    /\ log[2].After.ConsecutiveFails = 2
    /\ log[3].Fresh
    /\ ~log[3].IsSuccess

(* The alert before evaluation i for the same target with no recovery in   *)
(* between, 0 when there is none                                             *)
RECURSIVE PrevAlert(_, _, _)
PrevAlert(lg, i, id) ==
    IF i = 0 THEN 0
    ELSE IF lg[i].ID # id THEN PrevAlert(lg, i - 1, id)
    ELSE IF lg[i].Recoveries > 0 THEN 0
    ELSE IF lg[i].Alerts > 0 THEN i
    ELSE PrevAlert(lg, i - 1, id)

(* Evaluations j..i of the target of i used one threshold on one TaskState *)
SameThreshold(lg, j, i) ==
    \A k \in j..i :
        lg[k].ID = lg[i].ID =>
            /\ lg[k].Threshold = lg[i].Threshold
            /\ k > j => lg[k].HadState

(* C17: of two alerts for one target with no recovery in between, the      *)
(* later one is the threshold-crossing alert or comes more than the         *)
(* cooldown after the LastAlertTime the earlier one recorded; with a fixed *)
(* threshold it is never the crossing alert, so it always comes more than  *)
(* the cooldown after the earlier one.                                       *)
C17_CooldownGated ==
    \A i \in 1..Len(log) :
        LET j == PrevAlert(log, i - 1, log[i].ID)
            gated == DurLess(log[i].Cooldown,
                             Seconds(log[i].Time - log[j].After.LastAlertTime))
        IN  (log[i].Alerts > 0 /\ j > 0) =>
                /\ log[i].After.ConsecutiveFails = log[i].Threshold \/ gated
                /\ SameThreshold(log, j, i) => gated

(* The part of C17 that holds: when the TaskState was not created anew     *)
(* between the two alerts                                                    *)
C17_WithinOneState ==
    \A i \in 1..Len(log) :
        LET j == PrevAlert(log, i - 1, log[i].ID)
        IN  (/\ log[i].Alerts > 0
             /\ j > 0
             /\ \A k \in (j + 1)..i : log[k].ID = log[i].ID => log[k].HadState) =>
                \/ log[i].After.ConsecutiveFails = log[i].Threshold
                \/ DurLess(log[i].Cooldown,
                           Seconds(log[i].Time - log[j].After.LastAlertTime))

(* C14: once the context is cancelled, the scheduler loop starts no sweep  *)
(* at its next cancellation check and returns there; a loop in the wait     *)
(* between two cycles can leave it at once, whatever the timer; a sweep in  *)
(* flight runs on to the publication of its results; Start returns in the   *)
(* end and stays returned.                                                   *)
C14_Shutdown ==
    /\ [][(ctxDone /\ pc[Sched] = "loop") => pc'[Sched] \in {"loop", "done"}]_vars
    /\ [][(ctxDone /\ pc[Sched] = "wait") => pc'[Sched] \in {"wait", "loop", "done"}]_vars
    /\ [][pc[Sched] = "done" => (pc'[Sched] = "done" /\ loc'[Sched] = loc[Sched])]_vars
    /\ []((ctxDone /\ pc[Sched] = "wait") => ENABLED StartWait)
    /\ (ctxDone /\ pc[Sched] = "wait" /\ now < wakeAt) ~> (pc[Sched] = "done")
    /\ (ctxDone /\ pc[Sched] \in {"lock", "batch", "collect"})
           ~> (/\ pc[Sched] = "unlock"
               /\ results = loc[Sched].newResults
               /\ Len(results) = Len(loc[Sched].tasks))
    /\ ctxDone ~> (pc[Sched] = "done")

(* The context is cancelled while the sweep of the scheduler loop has       *)
(* aggregated one of its two results and a triggered sweep waits for the    *)
(* lock                                                                      *)
C14_Witness ==
    /\ ctxDone
    /\ pc[Sched] = "collect"
    /\ Len(loc[Sched].newResults) = 1
    /\ \E p \in Triggers : pc[p] = "lock"

(* C15: a sweep publishes only after every one of its probes has completed *)
(* and been aggregated, and what it publishes has exactly one Result per    *)
(* entry of its target list and none for another id.                         *)
C15_PublishAfterAll ==
    [][\A p \in Procs :
          runBatchPublish(p) =>
              LET tasks == loc[p].tasks
                  ids == {tasks[k].ID : k \in 1..Len(tasks)}
              IN  /\ loc[p].pending = {}
                  /\ loc[p].ch = <<>>
                  /\ Len(results') = Len(tasks)
                  /\ {results'[j].ID : j \in 1..Len(results')} = ids
                  /\ \A k \in 1..Len(tasks) :
                         Cardinality({j \in 1..Len(results') :
                                         results'[j].ID = tasks[k].ID}) = 1]_vars

(* A sweep over two tasks has published both results, the one of the       *)
(* second task first                                                         *)
C15_Witness ==
    \E p \in Procs :
        /\ pc[p] = "unlock"
        /\ Len(loc[p].tasks) = 2
        /\ results = loc[p].newResults
        /\ Len(results) = 2
        /\ results[1].ID = loc[p].tasks[2].ID

IdsOf(rs) == {rs[j].ID : j \in 1..Len(rs)}

(* C16: within one sweep there is a full join before aggregation: as long  *)
(* as a probe of the sweep has not completed, no step of the sweep changes  *)
(* a TaskState or a history entry or emits an alert or a recovery (event    *)
(* row, resolution or mail).                                                 *)
C16_JoinBeforeAggregation ==
    [][\A p \in Procs :
          (runBatchCollect(p) /\ loc[p].pending # {}) =>
              /\ states' = states
              /\ history' = history
              /\ events' = events
              /\ mails' = mails]_vars

(* What runBatch does instead: it aggregates the results one at a time as   *)
(* they arrive.  Each probe of the sweep is pending, delivered or           *)
(* aggregated; a round works on a result whose probe has completed and      *)
(* changes the TaskState of the id of that result and the history of the    *)
(* URL of that result (which is also the history of every other target     *)
(* with that URL, C32), and the rows and mails it adds bear its name.       *)
C16_AggregationOnArrival ==
    /\ [](\A p \in Procs :
              (pc[p] = "collect" \/ InRound(p)) =>
                  LET tasks == loc[p].tasks
                      done == (1..Len(tasks)) \ loc[p].pending
                      cur == {loc[p].cur[k].res.ID : k \in 1..Len(loc[p].cur)}
                  IN  /\ loc[p].pending \subseteq 1..Len(tasks)
                      /\ IdsOf(loc[p].ch) \cup cur \cup IdsOf(loc[p].newResults)
                             = {tasks[k].ID : k \in done}
                      /\ Len(loc[p].ch) + Len(loc[p].cur) + Len(loc[p].newResults)
                             = Cardinality(done))
    /\ [][\A p \in Procs :
              runBatchCollect(p) =>
                  LET res == IF loc[p].cur = <<>> THEN Head(loc[p].ch)
                             ELSE loc[p].cur[1].res
                  IN  /\ \E k \in (1..Len(loc[p].tasks)) \ loc[p].pending :
                             loc[p].tasks[k].ID = res.ID
                      /\ \A i \in DOMAIN states \ {res.ID} :
                             i \in DOMAIN states' /\ states'[i] = states[i]
                      /\ \A u \in DOMAIN history \ {res.URL} :
                             u \in DOMAIN history' /\ history'[u] = history[u]
                      /\ pc[p] # "mulock" => history' = history
                      /\ pc[p] \notin {"mulock", "stamp"} => states' = states
                      /\ pc[p] = "mulock" =>
                             /\ Len(log') = Len(log) + 1
                             /\ log'[Len(log')].ID = res.ID
                      /\ \A k \in 1..Len(events') :
                             (k > Len(events) \/ events'[k] # events[k]) =>
                                 events'[k].TaskName = res.TaskName
                      /\ \A k \in (Len(mails) + 1)..Len(mails') :
                             mails'[k].TaskName = res.TaskName]_vars

(* The first result of a sweep has been aggregated and its alert emitted   *)
(* while the other probe of the sweep is still running                      *)
C16_Witness ==
    \E p \in Procs :
        /\ pc[p] = "collect"
        /\ loc[p].pending # {}
        /\ Len(loc[p].newResults) = 1
        /\ loc[p].newResults[1].ID \in DOMAIN states
        /\ \E i \in 1..Len(events) :
               /\ events[i].TaskName = loc[p].newResults[1].TaskName
               /\ events[i].EventTime = now

(* The last evaluation up to i at which an alert was decided for task id,  *)
(* 0 when there is none                                                      *)
RECURSIVE LastAlert(_, _, _)
LastAlert(lg, i, id) ==
    IF i = 0 THEN 0
    ELSE IF lg[i].ID = id /\ lg[i].Alerts > 0 THEN i
    ELSE LastAlert(lg, i - 1, id)

(* The number of mails the evaluations 1..i asked for *)
RECURSIVE SumMails(_, _)
SumMails(lg, i) == IF i = 0 THEN 0 ELSE lg[i].Mails + SumMails(lg, i - 1)

(* The decisions of section 4.3 read off the outcomes and times of the     *)
(* checks alone, for the settings of the run                                *)
ExpectAlert(lg, i) ==
    LET f == FailRun(lg, i, lg[i].ID)
        j == LastAlert(lg, i - 1, lg[i].ID)
    IN  /\ ~lg[i].IsSuccess
        /\ \/ f = cfg.AlertThreshold
           \/ /\ f > cfg.AlertThreshold
              /\ j > 0 => lg[i].Time - lg[j].After.LastAlertTime
                               > cfg.AlertCooldown * Minute

ExpectRecover(lg, i) ==
    lg[i].IsSuccess /\ FailRunBefore(lg, i) >= cfg.AlertThreshold

(* C18: the dispatch of a notification never delays a sweep: a sweep that  *)
(* emits an alert or a recovery publishes and releases the sweep lock also *)
(* when sendMail never returns, and the TaskState updates and the          *)
(* published results are those the checks determine, whether the mails     *)
(* succeed, fail or hang.                                                    *)
C18_DispatchOffPath ==
    /\ [](\A i \in 1..Len(log) :
              /\ log[i].After.ConsecutiveFails = FailRun(log, i, log[i].ID)
              /\ log[i].Alerts = (IF ExpectAlert(log, i) THEN 1 ELSE 0)
              /\ log[i].Recoveries = (IF ExpectRecover(log, i) THEN 1 ELSE 0))
    /\ []((pc[Sched] = "wait" /\ Len(log) > 0) =>
              /\ Len(results) = 1
              /\ results[1].IsSuccess = log[Len(log)].IsSuccess
              /\ states[1] = log[Len(log)].After)
    /\ [][\A i \in 1..Len(mails) : \A o \in {"sent", "failed"} :
              sendMail(i, o) =>
                  UNCHANGED <<pc, runMu, loc, states, results, history, log>>]_vars
    /\ (pc[Sched] = "lock" \/ InBatch(Sched))
           ~> (pc[Sched] = "wait" /\ runMu = NoProc /\ Len(results) = 1)

(* The mail of the first alert has not returned, and the next sweep has    *)
(* been published and has started a mail of its own                          *)
C18_Witness ==
    /\ Len(log) = 2
    /\ log[1].Alerts = 1
    /\ mails[1].State = "running"
    /\ pc[Sched] = "wait"
    /\ runMu = NoProc
    /\ Len(mails) >= 2

(* C19: a failed send causes no retry: every decision starts one mail and  *)
(* no more, LastAlertTime is set in the critical section of the decision,  *)
(* before the mail is started and whatever becomes of it, and after a      *)
(* failed send the next alert comes from a later failing sweep that is the *)
(* crossing one or more than the cooldown after the alert whose send       *)
(* failed.                                                                   *)
C19_NoRetry ==
    /\ [](Len(mails) = SumMails(log, Len(log)))
    /\ [](\A i \in 1..Len(log) :
              log[i].Mails <= 1 /\ log[i].Mails <= log[i].Alerts + log[i].Recoveries)
    /\ [](\A i \in 1..Len(log) :
              (log[i].Alerts = 1 /\ log[i].Mails = 1) =>
                  /\ log[i].After.LastAlertTime >= log[i].Time
                  /\ log[i].After.LastAlertTime <= log[i].Time + MaxDrift)
    /\ [][\A i \in 1..Len(mails) : \A o \in {"sent", "failed"} :
              sendMail(i, o) =>
                  /\ states' = states
                  /\ events' = events
                  /\ Len(mails') = Len(mails)]_vars
    /\ [](\A i \in 1..Len(log) :
              LET j == LastAlert(log, i - 1, log[i].ID)
              IN  (log[i].Alerts = 1 /\ j > 0
                     /\ mails[SumMails(log, j)].State = "failed") =>
                      /\ ~log[i].IsSuccess
                      /\ log[i].Time > log[j].After.LastAlertTime
                      /\ \/ FailRun(log, i, log[i].ID) = cfg.AlertThreshold
                         \/ log[i].Time - log[j].After.LastAlertTime
                                > cfg.AlertCooldown * Minute)

(* The mail of the first alert failed; the next failing sweep, within the  *)
(* cooldown, sent nothing, the one after it alerted                         *)
C19_Witness ==
    /\ Len(log) >= 3
    /\ log[1].Alerts = 1
    /\ mails[1].State = "failed"
    /\ ~log[2].IsSuccess /\ log[2].Alerts = 0
    /\ log[3].Alerts = 1
    /\ Len(mails) = 2

(* C20: failures of the store never stop or alter the sweep loop: every    *)
(* sweep publishes all its results, the TaskState transitions and the      *)
(* decisions are those the checks determine, with a mail for each, and the *)
(* scheduler goes on to its next iteration, whether the database takes the *)
(* rows or not.                                                              *)
C20_StoreFailuresSwallowed ==
    /\ [](\A p \in Procs :
              (pc[p] = "unlock" /\ loc[p].tasks # <<>>) =>
                  /\ results = loc[p].newResults
                  /\ Len(results) = Len(loc[p].tasks))
    /\ [](\A i \in 1..Len(log) :
              /\ log[i].After.IsDown <=>
                     (~log[i].IsSuccess /\ FailRun(log, i, log[i].ID) >= cfg.AlertThreshold)
              /\ log[i].Alerts = (IF ExpectAlert(log, i) THEN 1 ELSE 0)
              /\ log[i].Recoveries = (IF ExpectRecover(log, i) THEN 1 ELSE 0)
              /\ Done(i) => log[i].Mails = log[i].Alerts + log[i].Recoveries
              /\ (Done(i) /\ log[i].Recoveries = 1) => log[i].Resolves = 1)
    /\ [](Len(events) <= Len(mails) + Cardinality({p \in Procs : pc[p] = "resolve"}))
    /\ [][~storeOk => /\ Len(events') <= Len(events)
                       /\ Len(perf') <= Len(perf)]_vars
    /\ [][pc'[Sched] = "loop" => pc[Sched] \in {"loop", "wait"}]_vars
    /\ (pc[Sched] = "lock") ~> (pc[Sched] = "loop")

(* Two sweeps with an alert and a recovery went by while the database took  *)
(* no row                                                                     *)
C20_Witness ==
    /\ ~storeOk
    /\ Len(log) = 2
    /\ events = <<>>
    /\ perf = <<>>
    /\ \A i \in 1..Len(log) : log[i].AlertRow = 0 /\ log[i].RecoverRow = 0
    /\ log[1].Alerts = 1 /\ log[1].Mails = 1
    /\ log[2].Recoveries = 1 /\ log[2].Resolves = 1 /\ log[2].Mails = 1
    /\ pc[Sched] = "loop"


----------------------------------------------------------------------------
(* The engine with the handler that stars a task: two tasks, of which the   *)
(* first answers and the second fails; callers reading the results.         *)
InitStar == InitWith(Config(<<TaskA, TaskB>>, 1, 0), StarSweeps)

NextStar ==
    \/ Start
    \/ StartWait
    \/ \E p \in Procs : Sweep(p)
    \/ \E p \in Procs : checkURL(p, 1, RespOk)
    \/ \E p \in Procs : checkURL(p, 2, RespErr)
    \/ \E id \in 1..3 : \E ok \in BOOLEAN : \E p \in Triggers : toggleStarHandler(id, ok, p)
    \/ CallResults
    \/ /\ Waiting
       /\ Tick(wakeAt - now)

SpecStar == InitStar /\ [][NextStar]_vars

(* The step of toggleStarHandler that is the call UpdateStar(id, starred) *)
StarStep ==
    /\ cpc.star # <<>>
    /\ cpc.star[1].at = "update"
    /\ cpc'.star # <<>>
    /\ cpc'.star[1].at = "trigger"

(* C21: UpdateStarred(id, starred) sets the starred flag of the Result with *)
(* that id in the published snapshot, the next Results() call returns it,   *)
(* and nothing else changes: no other Result, no other field, no TaskState, *)
(* no history entry (and no stored row, no slice a caller already holds);   *)
(* the flag the handler passes is the one ToggleStar has just stored.       *)
C21_StarInPlace ==
    /\ [][StarStep =>
              /\ Len(results') = Len(results)
              /\ \A k \in 1..Len(results) :
                     /\ results[k].ID = cpc.star[1].id =>
                            results'[k].Starred = cpc.star[1].starred
                     /\ results[k].ID # cpc.star[1].id => results'[k] = results[k]
                     /\ [results'[k] EXCEPT !.Starred = results[k].Starred] = results[k]
              /\ Results' = results'
              /\ UNCHANGED <<states, history, events, perf, out, cfg>>]_vars
    /\ [][(cpc.star = <<>> /\ cpc'.star # <<>>) =>
              cpc'.star[1].starred = StarOf(cfg'.Tasks, cpc'.star[1].id)]_vars

(* A published result shows the star while the other does not, with state   *)
(* and history in place: no sweep sets the flag, so the handler has acted   *)
C21_Witness ==
    /\ Len(results) = 2
    /\ results[1].Starred # results[2].Starred
    /\ DOMAIN states = {1, 2}
    /\ Len(out) = 2


----------------------------------------------------------------------------
(* The engine with the handler that resets configuration and data: two      *)
(* tasks, of which the example file keeps one; checks answer or fail.       *)
ExampleFile ==
    [Interval |-> 5, AlertThreshold |-> 1, AlertCooldown |-> 0,
     Tasks |-> <<TaskA>>, NextTaskID |-> 0]

InitReset == InitWith(Config(<<TaskA, TaskB>>, 1, 0), ResetSweeps)

NextReset ==
    \/ Start
    \/ StartWait
    \/ \E p \in Procs : Sweep(p)
    \/ \E p \in Procs : \E k \in 1..2 : \E r \in {RespOk, RespErr} : checkURL(p, k, r)
    \/ \E o \in ResetOutcomes \cup {"noremove", "noopen"} : \E p \in Triggers :
          resetHandler(ExampleFile, o, p)
    \/ /\ Waiting
       /\ Tick(wakeAt - now)

SpecReset == InitReset /\ [][NextReset]_vars

(* C22: Reset(newEventStore) leaves the engine with an empty TaskState map, *)
(* an empty history map and no published Result, and every event or         *)
(* performance record written afterwards is in the new store and none in    *)
(* the old one, which is closed and takes no row from the time it is closed;*)
(* also when a sweep is in flight or queued at the time of the Reset.       *)
C22_ResetClears ==
    /\ [][resetAt' # resetAt =>
              /\ states' = <<>>
              /\ history' = <<>>
              /\ results' = <<>>
              /\ Results' = <<>>
              /\ events' = events
              /\ perf' = perf
              /\ ~storeOk
              /\ storeOk']_vars
    /\ [][~storeOk => (Len(events') <= Len(events) /\ Len(perf') <= Len(perf))]_vars
    /\ [](storeOk =>
              \A i \in (resetAt + 1)..Len(log) :
                  /\ log[i].AlertRow # 0 =>
                         /\ log[i].AlertRow \in 1..Len(events)
                         /\ events[log[i].AlertRow].Type = AlertType
                  /\ log[i].RecoverRow # 0 =>
                         /\ log[i].RecoverRow \in 1..Len(events)
                         /\ events[log[i].RecoverRow].Type = RecoverType)
    /\ [](\A j \in 1..Len(events) :
              \E i \in 1..Len(log) : log[i].AlertRow = j \/ log[i].RecoverRow = j)
    /\ [](\A j \in 1..Len(perf) :
              \/ \E i \in 1..Len(log) :
                     log[i].ID = perf[j].TaskID /\ log[i].IsSuccess
              \/ \E p \in Procs :
                     /\ pc[p] = "mulock"
                     /\ loc[p].cur[1].res.ID = perf[j].TaskID)

(* After a Reset whose os.Remove failed the new store holds the alert row   *)
(* written before it, and the row of an alert decided after it               *)
C22_RowsKept ==
    /\ resetAt > 0
    /\ storeOk
    /\ Len(events) = 2
    /\ \E i \in 1..resetAt : log[i].AlertRow = 1
    /\ \E i \in (resetAt + 1)..Len(log) : log[i].AlertRow = 2

(* After a Reset that found rows in the old store, a sweep that was in      *)
(* flight (it still checks task 2, which the new configuration lacks) has   *)
(* written an event row and a performance row                                *)
C22_Witness ==
    /\ resetAt > 0
    /\ \E i \in 1..resetAt : log[i].Alerts > 0
    /\ \E i \in (resetAt + 1)..Len(log) : log[i].ID = 2 /\ log[i].Alerts > 0
    /\ \E i \in (resetAt + 1)..Len(log) : log[i].ID = 1 /\ log[i].IsSuccess
    /\ Len(events) = 1
    /\ Len(perf) = 1

(* The reset of SpecReset with clearLogsHandler called at any time           *)
NextClear == NextReset \/ ClearLogs

SpecClear == InitReset /\ [][NextClear]_vars

(* The second DELETE of a ClearLogs goes to the repository of its first: it *)
(* empties the table when h.repo still names that repository and it takes   *)
(* writes, and leaves the table when resetHandler has replaced it meanwhile *)
ClearLogs_ReceiverFixed ==
    [][/\ (ClearLogs /\ cpc.clear = "closed") => perf' = perf
       /\ (ClearLogs /\ cpc.clear = "perf" /\ RepoOk) => perf' = <<>>]_vars

(* A ClearLogs is between its two statements, resetHandler has assigned the *)
(* new repository, which holds a performance row, and Reset is yet to come  *)
ClearLogs_Overtaken ==
    /\ cpc.clear = "closed"
    /\ cpc.reset = "reset"
    /\ Len(perf) > 0

----------------------------------------------------------------------------
(* C23: every Result a sweep publishes carries the starred flag its target  *)
(* has in the target list the sweep was run with.                            *)
C23_StarCarried ==
    [][\A p \in Procs :
          (pc[p] = "collect" /\ pc'[p] = "unlock") =>
              \A k \in 1..Len(results') :
                  results'[k].Starred = StarOf(loc[p].tasks, results'[k].ID)]_vars

(* The part of C23 that holds: id, name and URL of the target are carried *)
C23_IdentityCarried ==
    [][\A p \in Procs :
          (pc[p] = "collect" /\ pc'[p] = "unlock") =>
              \A k \in 1..Len(results') :
                  \E j \in 1..Len(loc[p].tasks) :
                      /\ loc[p].tasks[j].ID = results'[k].ID
                      /\ loc[p].tasks[j].Name = results'[k].TaskName
                      /\ loc[p].tasks[j].URL = results'[k].URL]_vars


----------------------------------------------------------------------------
(* The configuration manager alone: the program starts without a            *)
(* configuration file or with one it wrote before; tasks are added and      *)
(* deleted, the program is restarted, the configuration is reset.           *)
SavedFile == saveLocked(Config(<<TaskA, TaskB>>, 3, 60))

AddInput(name, raw, prefixed, parseOk, host, isIP, resolves) ==
    [Name |-> name, Raw |-> raw, Prefixed |-> prefixed, ParseOk |-> parseOk,
     Host |-> host, IsIP |-> isIP, Resolves |-> resolves]

AddInputs ==
    {AddInput(" c ", " example.com", FALSE, TRUE, <<"example", "com">>, FALSE, TRUE),
     AddInput("d", "https://10.0.0.1", TRUE, TRUE, <<"10", "0", "0", "1">>, TRUE, FALSE),
     AddInput(" ", "https://example.org", TRUE, TRUE, <<"example", "org">>, FALSE, TRUE),
     AddInput("e", "nohost", FALSE, TRUE, <<"nohost">>, FALSE, TRUE),
     AddInput("f", "nx.example", FALSE, TRUE, <<"nx", "example">>, FALSE, FALSE),
     AddInput("g", "http://", TRUE, TRUE, <<>>, FALSE, FALSE),
     AddInput("h", "%zz", FALSE, FALSE, <<>>, FALSE, FALSE)}

InitIds ==
    \E d \in {NoFile, SavedFile} :
        InitWith(LoadOrDefault(d), 0)

NextIds ==
    \/ \E r, ok \in BOOLEAN : CallLoadOrDefault(r, ok)
    \/ Running /\ \E in \in AddInputs : \E ok \in BOOLEAN : CallAddTask(in, ok)
    \/ Running /\ \E id \in 0..4 : \E ok \in BOOLEAN : CallDeleteTask(id, ok)
    \/ Running /\ \E o \in ResetOutcomes : CallResetToExample(ExampleFile, o)

SpecIds == InitIds /\ [][NextIds]_vars

(* C24: task ids are unique and never reused: the tasks of the              *)
(* configuration have pairwise distinct ids, NextTaskID is greater than     *)
(* every id in the task list, and AddTask never returns an id that an       *)
(* earlier AddTask returned.                                                 *)
C24_UniqueIds ==
    /\ \A i, j \in 1..Len(cfg.Tasks) : cfg.Tasks[i].ID = cfg.Tasks[j].ID => i = j
    /\ \A i \in 1..Len(cfg.Tasks) : cfg.NextTaskID > cfg.Tasks[i].ID
    /\ \A i, j \in 1..Len(issued) : issued[i] = issued[j] => i = j

(* The three parts of C24, one by one *)
C24_DistinctInList ==
    \A i, j \in 1..Len(cfg.Tasks) : cfg.Tasks[i].ID = cfg.Tasks[j].ID => i = j

C24_CounterAhead == \A i \in 1..Len(cfg.Tasks) : cfg.NextTaskID > cfg.Tasks[i].ID

C24_NeverReissued ==
    \A i, j \in 1..Len(issued) : issued[i] = issued[j] => i = j


----------------------------------------------------------------------------
(* The first evaluation of a scheduled sweep *)
SchedStart(lg, i) ==
    /\ lg[i].Proc = Sched
    /\ i = 1 \/ lg[i - 1].Sweep # lg[i].Sweep

(* Evaluation k is made after the start of the scheduled sweep at i and     *)
(* before the start of the next scheduled sweep                              *)
InInterval(lg, i, k) ==
    /\ i <= k
    /\ k <= Len(lg)
    /\ \A m \in (i + 1)..k : ~SchedStart(lg, m)

(* C25: between the starts of two consecutive scheduled sweeps no target is *)
(* probed more than once and no target's consecutiveFails increases by more *)
(* than 1, whatever manual triggers are issued in between.                   *)
C25_OncePerInterval ==
    \A i \in 1..Len(log) :
        SchedStart(log, i) =>
            \A j, k \in i..Len(log) :
                (j <= k /\ InInterval(log, i, k) /\ log[j].ID = log[k].ID) =>
                    /\ j = k
                    /\ log[k].After.ConsecutiveFails
                           <= log[j].Before.ConsecutiveFails + 1

(* C25 as amended: every sweep probes each entry of its target list once,   *)
(* every result raises consecutiveFails by at most 1, and between the       *)
(* starts of two consecutive scheduled sweeps a target is evaluated at most *)
(* once per sweep that ran in between, the manually triggered ones included *)
C25_OncePerSweep ==
    /\ \A a, b \in 1..Len(probes) :
           (probes[a].Sweep = probes[b].Sweep /\ probes[a].Index = probes[b].Index)
               => a = b
    /\ \A p \in Procs :
           (pc[p] = "unlock" /\ loc[p].tasks # <<>>) =>
               \A k \in 1..Len(loc[p].tasks) :
                   \E a \in 1..Len(probes) :
                       probes[a].Sweep = SweepNo(p) /\ probes[a].Index = k
    /\ \A i \in 1..Len(log) :
           /\ log[i].After.ConsecutiveFails <= log[i].Before.ConsecutiveFails + 1
           /\ \A j \in 1..Len(log) :
                  (log[i].Sweep = log[j].Sweep /\ log[i].ID = log[j].ID) => i = j
    /\ \A i \in 1..Len(log) :
           SchedStart(log, i) =>
               \A j, k \in i..Len(log) :
                   (j <= k /\ InInterval(log, i, k) /\ log[j].ID = log[k].ID) =>
                       log[k].After.ConsecutiveFails
                           <= log[j].Before.ConsecutiveFails
                              + Cardinality({log[m].Sweep : m \in j..k})

(* A manually triggered sweep ran after a scheduled one: the target was     *)
(* probed twice in the interval and its consecutiveFails went up by 2       *)
C25_Witness ==
    \E i, k \in 1..Len(log) :
        /\ SchedStart(log, i)
        /\ InInterval(log, i, k)
        /\ log[k].Proc # Sched
        /\ log[k].ID = log[i].ID
        /\ log[k].After.ConsecutiveFails = log[i].Before.ConsecutiveFails + 2
        /\ \E a, b \in 1..Len(probes) :
               /\ a # b
               /\ probes[a].ID = log[i].ID
               /\ probes[b].ID = log[i].ID


----------------------------------------------------------------------------
(* The scheduler loop and manual triggers that arrive while a sweep runs:   *)
(* one task whose checks fail, several runOnce goroutines waiting for       *)
(* runMu.  Every goroutine takes its steps, time passes, and the lock is    *)
(* fair: a goroutine that can take it again and again does take it.         *)
QueueProcs == {Sched} \cup (1..QueueTriggers)

InitQueue == InitProcs(Config(<<TaskA>>, 1, 0), QueueSweeps, QueueProcs)

NextQueue ==
    \/ Start
    \/ StartWait
    \/ \E p \in QueueProcs : TriggerNow(p)
    \/ \E p \in QueueProcs : Sweep(p)
    \/ \E p \in QueueProcs : checkURL(p, 1, RespErr)
    \/ Waiting /\ Tick(wakeAt - now)

FairQueue ==
    /\ WF_vars(Start)
    /\ WF_vars(StartWait)
    /\ WF_vars(Waiting /\ Tick(wakeAt - now))
    /\ \A p \in QueueProcs : SF_vars(runOnceLock(p))
    /\ \A p \in QueueProcs : WF_vars(Sweep(p))
    /\ \A p \in QueueProcs : WF_vars(checkURL(p, 1, RespErr))

SpecQueue == InitQueue /\ [][NextQueue]_vars /\ FairQueue

(* The runOnce calls issued so far, and those whose sweep has not yet       *)
(* evaluated its result                                                      *)
Calls == QueueSweeps - budget

NotYetRun ==
    Cardinality({p \in DOMAIN pc :
                    \/ pc[p] \in {"lock", "batch", "mulock"}
                    \/ pc[p] = "collect" /\ loc[p].newResults = <<>>})

(* C26: sweeps are delayed but never skipped or coalesced: every scheduler  *)
(* iteration runs exactly one sweep and starts its wait only when that      *)
(* sweep has completed, and under a fair sweep lock every TriggerNow call   *)
(* eventually results in exactly one sweep of its own, also when several    *)
(* triggers arrive while a sweep is running.                                 *)
C26_NeverSkipped ==
    /\ [](Len(log) + NotYetRun = Calls)
    /\ [](\A i, j \in 1..Len(log) : log[i].Sweep = log[j].Sweep => i = j)
    /\ [][(pc[Sched] # "timer" /\ pc'[Sched] = "timer") =>
              /\ pc[Sched] = "unlock"
              /\ runMu = Sched
              /\ runMu' = NoProc
              /\ Len(loc[Sched].newResults) = 1
              /\ log[Len(log)].Proc = Sched
              /\ ~Open]_vars
    /\ [][(pc[Sched] # "wait" /\ pc'[Sched] = "wait") =>
              (pc[Sched] = "timer" /\ wakeAt' = now + EffInterval(loc[Sched].interval))]_vars
    /\ [][(pc[Sched] = "loop" /\ pc'[Sched] # "loop") =>
              (pc'[Sched] = "lock" /\ budget' = budget - 1)]_vars
    /\ [](\A p \in QueueProcs :
              pc[p] = "unlock" =>
                  /\ runMu = p
                  /\ log[Len(log)].Proc = p
                  /\ Len(loc[p].newResults) = 1)
    /\ \A p \in QueueProcs : (pc[p] = "lock") ~> (pc[p] = "unlock")
    /\ <>[](Len(log) = Calls)

(* Two triggered runOnce calls wait for the lock while the sweep of the     *)
(* scheduler runs, and in the end all four calls have had their sweep       *)
C26_Queued ==
    /\ pc[Sched] = "collect"
    /\ pc[1] = "lock"
    /\ pc[2] = "lock"

C26_Witness ==
    /\ Len(log) = QueueSweeps
    /\ budget = 0
    /\ Cardinality({i \in 1..Len(log) : log[i].Proc # Sched}) >= 2
    /\ log[1].Proc = Sched
    /\ log[2].Proc # Sched
    /\ log[3].Proc # Sched
    /\ log[2].Time = log[1].Time


----------------------------------------------------------------------------
(* runOnce called with thresholds and cooldowns in and out of range, on one *)
(* task whose checks succeed or fail; sweeps are 40 seconds apart.          *)
InitClamp == InitWith(Config(<<TaskA>>, 1, 0), ClampSweeps)

ThresholdArgs == {-1, 0, 1, 2}

(* Cooldowns in minutes: out of range, in range, and the first two whose    *)
(* count of nanoseconds does not fit the int64 of a Duration                 *)
CooldownArgs == {-1, 0, 1, MaxDuration.min + 1, 2 * MaxDuration.min + 1}

NextClamp ==
    \/ \E th \in ThresholdArgs : \E cd \in CooldownArgs : StartArgs(th, cd)
    \/ StartWait
    \/ Sweep(Sched)
    \/ \E r \in {RespOk, RespErr} : checkURL(Sched, 1, r)
    \/ Waiting /\ Tick(40)

SpecClamp == InitClamp /\ [][NextClamp]_vars

(* What evaluation i of the log did, and what the decision of runBatch is   *)
(* for the same result with threshold th and a cooldown of cd minutes       *)
Did(i) ==
    [fails |-> log[i].After.ConsecutiveFails, down |-> log[i].After.IsDown,
     alerts |-> log[i].Alerts, recoveries |-> log[i].Recoveries]

Does(i, th, cd) ==
    LET ev == Evaluate(log[i].Before, log[i].IsSuccess, log[i].Time, th, Dur(cd, 0, 0))
    IN  [fails |-> ev.st.ConsecutiveFails, down |-> ev.st.IsDown,
         alerts |-> IF ev.shouldAlert THEN 1 ELSE 0,
         recoveries |-> IF ev.needRecover THEN 1 ELSE 0]

Clamped(i) ==
    LET th == log[i].ThresholdIn
        cd == log[i].CooldownIn
    IN  /\ Did(i) = Does(i, IF th <= 0 THEN 1 ELSE th, IF cd < 0 THEN 0 ELSE cd)
        /\ (th <= 0 /\ ~log[i].IsSuccess /\ ~log[i].Before.IsDown
                    /\ log[i].Before.ConsecutiveFails = 0) =>
               (log[i].After.IsDown /\ log[i].Alerts = 1)
        /\ (cd < 0 /\ ~log[i].IsSuccess /\ log[i].Before.LastAlertTime # ZeroTime
                    /\ log[i].Before.ConsecutiveFails >= (IF th <= 0 THEN 1 ELSE th)) =>
               (log[i].Alerts = 1 <=> log[i].Time > log[i].Before.LastAlertTime)

(* C27: a sweep run with threshold <= 0 behaves like one run with           *)
(* threshold 1 (the first failure of an Up target marks it Down and         *)
(* alerts), one run with a negative cooldown like one run with cooldown 0;  *)
(* a threshold >= 1 and a cooldown >= 0 are used as they are.               *)
C27_Clamps == \A i \in 1..Len(log) : Clamped(i)

(* C27 for the cooldowns whose count of nanoseconds fits an int64 (up to    *)
(* 153722867 minutes): the sweep does what the claim says.                   *)
C27_InRange ==
    \A i \in 1..Len(log) : log[i].CooldownIn <= MaxDuration.min => Clamped(i)

(* A cooldown of 153722868 minutes: the target went down and alerted, and   *)
(* the next failure, 40 seconds later, alerted again                         *)
C27_Wrapped ==
    /\ Len(log) >= 2
    /\ log[2].CooldownIn = MaxDuration.min + 1
    /\ log[2].ThresholdIn = 1
    /\ log[2].Before.IsDown
    /\ log[2].Before.LastAlertTime # ZeroTime
    /\ log[2].Time = log[2].Before.LastAlertTime + 40
    /\ log[2].Alerts = 1

(* A first failure under threshold 0 that marked the target Down, and a     *)
(* later failure under a negative cooldown that alerted again               *)
C27_Witness ==
    /\ Len(log) >= 2
    /\ log[1].ThresholdIn = 0
    /\ log[1].After.IsDown
    /\ log[1].Alerts = 1
    /\ log[2].CooldownIn = -1
    /\ log[2].ThresholdIn = -1
    /\ log[2].Alerts = 1
    /\ log[2].After.ConsecutiveFails = 2


----------------------------------------------------------------------------
(* C28: a sweep over an empty target list changes nothing: TaskState map,   *)
(* history map and published Results stay as they were, and no event, no    *)
(* performance record and no notification is produced.                       *)
C28_EmptyNoOp ==
    [][\A p \in Procs :
          (/\ pc[p] \in {"lock", "batch", "collect", "unlock"}
           /\ loc[p].tasks = <<>>
           /\ pc'[p] # pc[p]) =>
              /\ pc[p] = "batch" => pc'[p] = "unlock"
              /\ UNCHANGED <<states, history, results, events, perf, mails,
                             log, probes>>]_vars

(* A sweep over the empty list has run to its end while results and a      *)
(* TaskState were in place                                                   *)
C28_Witness ==
    \E p \in Procs :
        /\ pc[p] = "unlock"
        /\ loc[p].tasks = <<>>
        /\ Len(results) = 1
        /\ 1 \in DOMAIN states
        /\ events # <<>>


----------------------------------------------------------------------------
(* The scheduler loop on one task whose checks meet every kind of response: *)
(* a URL or a request that cannot be built, a transport error, status codes *)
(* on both sides of 200 and 400, durations on both sides of 800 ms.         *)
Responses ==
    {RespOk, RespSlow, RespErr, RespTimeout, RespBadURL, RespBadReq,
     RespMoved, RespDenied, RespEarly, RespJustSlow}

InitProbe == InitWith(Config(<<TaskA>>, 2, 0), ProbeSweeps)

NextProbe ==
    \/ Start
    \/ StartWait
    \/ Sweep(Sched)
    \/ \E r \in Responses : checkURL(Sched, 1, r)
    \/ Waiting /\ Tick(wakeAt - now)

SpecProbe == InitProbe /\ [][NextProbe]_vars

(* The check built its request and got a status code in [200, 400) *)
Answered(r) == r.urlOk /\ r.reqOk /\ ~r.netErr /\ r.code >= 200 /\ r.code < 400

(* C29: a probe is a success iff the URL parses, the request is built, the  *)
(* transport returns no error and 200 <= status < 400; a success above      *)
(* 800 ms is tagged slow (yellow) and still counts as a success, one at     *)
(* 800 ms or below is green; every other case is a failure (red); a         *)
(* malformed URL or a request that cannot be built gives a failure with     *)
(* duration 0 that shows nothing of the network; every failure raises       *)
(* consecutiveFails by exactly 1.                                            *)
C29_Classification ==
    /\ loc[Sched].ch # <<>> =>
           LET res == loc[Sched].ch[1]
               r == probes[Len(probes)].Resp
           IN  /\ res.IsSuccess <=> Answered(r)
               /\ (Answered(r) /\ r.ms > 800) => res.StatusColor = "yellow"
               /\ (Answered(r) /\ r.ms <= 800) => res.StatusColor = "green"
               /\ ~Answered(r) => res.StatusColor = "red"
               /\ (~r.urlOk \/ ~r.reqOk) =>
                      /\ res.DurationInt = 0
                      /\ res.Duration = <<0, "ms">>
                      /\ res.StatusCode = 0
               /\ (r.urlOk /\ r.reqOk) =>
                      /\ res.DurationInt = r.ms
                      /\ res.Duration = <<r.ms, "ms">>
               /\ (r.urlOk /\ r.reqOk /\ ~r.netErr) => res.StatusCode = r.code
    /\ \A i \in 1..Len(log) :
           LET r == probes[i].Resp
           IN  /\ log[i].IsSuccess <=> Answered(r)
               /\ Answered(r) =>
                      /\ log[i].After.ConsecutiveFails = 0
                      /\ ~log[i].After.IsDown
                      /\ log[i].Color = (IF r.ms > 800 THEN "yellow" ELSE "green")
               /\ ~Answered(r) =>
                      /\ log[i].After.ConsecutiveFails
                             = log[i].Before.ConsecutiveFails + 1
                      /\ log[i].Color = "red"

(* A request that could not be built and a status 400 were evaluated one    *)
(* after the other: two failures, the target is down                         *)
C29_Witness ==
    /\ Len(log) = 2
    /\ probes[1].Resp = RespBadReq
    /\ probes[2].Resp = RespDenied
    /\ log[2].After.ConsecutiveFails = 2
    /\ log[2].After.IsDown

(* A slow answer after a failure: a success for the state machine *)
C29_SlowIsSuccess ==
    /\ Len(log) = 2
    /\ probes[1].Resp = RespTimeout
    /\ probes[2].Resp = RespJustSlow
    /\ log[2].Color = "yellow"
    /\ log[2].After.ConsecutiveFails = 0


----------------------------------------------------------------------------
(* The ids and the URLs of the target list of the sweep of p *)
ListIds(p) == {loc[p].tasks[k].ID : k \in 1..Len(loc[p].tasks)}
ListURLs(p) == {loc[p].tasks[k].URL : k \in 1..Len(loc[p].tasks)}

(* A step of the sweep of p *)
SweepStep(p) ==
    /\ pc[p] \in {"lock", "batch", "collect", "unlock"} \/ InRound(p)
    /\ pc'[p] # pc[p] \/ loc'[p] # loc[p]

(* C30: a sweep creates a TaskState only for the id whose result it         *)
(* processes and never deletes one: the TaskState of every id and the       *)
(* history of every URL that is not in its target list are left unchanged,  *)
(* and a TaskState disappears only through RemoveTaskState (or Reset).      *)
C30_SweepFrame ==
    /\ [][\A p \in Procs :
              SweepStep(p) =>
                  /\ DOMAIN states \subseteq DOMAIN states'
                  /\ \A id \in DOMAIN states' \ DOMAIN states :
                         /\ pc[p] = "mulock"
                         /\ loc[p].cur[1].res.ID = id
                         /\ log' = Append(log, log'[Len(log')])
                         /\ log'[Len(log')].ID = id
                  /\ \A id \in (DOMAIN states \cup DOMAIN states') \ ListIds(p) :
                         /\ id \in DOMAIN states
                         /\ id \in DOMAIN states'
                         /\ states'[id] = states[id]
                  /\ \A u \in (DOMAIN history \cup DOMAIN history') \ ListURLs(p) :
                         /\ u \in DOMAIN history
                         /\ u \in DOMAIN history'
                         /\ history'[u] = history[u]]_vars
    /\ [][~(DOMAIN states \subseteq DOMAIN states') =>
              \/ cpc.del # <<>> /\ cpc'.del = <<>> /\ mu = [w |-> NoProc, r |-> 0]
              \/ resetAt' # resetAt]_vars

(* A sweep over task 1 alone has evaluated its result while the TaskState   *)
(* and the history of task 2, which is not in its list, were in place       *)
C30_Witness ==
    \E p \in Procs :
        /\ pc[p] = "unlock"
        /\ ListIds(p) = {1}
        /\ Len(loc[p].newResults) = 1
        /\ 2 \in DOMAIN states
        /\ "u2" \in DOMAIN history


----------------------------------------------------------------------------
(* The ids and the URLs of the task list of the configuration *)
CfgIds == {cfg.Tasks[k].ID : k \in 1..Len(cfg.Tasks)}
CfgURLs == {cfg.Tasks[k].URL : k \in 1..Len(cfg.Tasks)}

(* RemoveTaskState(id, ...) has returned and id is not a task of the        *)
(* configuration: since the call the id was not evaluated, or it was        *)
(* evaluated as an id without TaskState                                      *)
Gone(id) ==
    /\ id \notin CfgIds
    /\ \/ id \in fresh
       \/ \E i \in 1..Len(log) : log[i].ID = id /\ log[i].Fresh

(* The URLs of the targets that are gone which no task of the configuration *)
(* has                                                                        *)
GoneURLs ==
    {log[i].URL : i \in {j \in 1..Len(log) : Gone(log[j].ID)}} \ CfgURLs

(* The parts of C31, one by one *)
C31_NoTaskState == \A id \in DOMAIN states : ~Gone(id)
C31_NoHistory == \A u \in DOMAIN history : u \notin GoneURLs
C31_NoResult == \A k \in 1..Len(results) : ~Gone(results[k].ID)

(* C31: a removed target stays removed: after RemoveTaskState(id, url) has  *)
(* returned no state has a TaskState for id, a history for url or a         *)
(* published Result for id unless the id (the url) is in the task list of   *)
(* the configuration, whatever sweep is in flight or queued on the lock.    *)
C31_StaysRemoved ==
    /\ C31_NoTaskState
    /\ C31_NoHistory
    /\ C31_NoResult


----------------------------------------------------------------------------
(* What a call RemoveTaskState(id, url) leaves alone: the TaskStates and    *)
(* the published Results of the other ids                                   *)
OthersKept(id) ==
    /\ \A j \in (DOMAIN states \cup DOMAIN states') \ {id} :
           /\ j \in DOMAIN states
           /\ j \in DOMAIN states'
           /\ states'[j] = states[j]
    /\ results' = SelectSeq(results, LAMBDA r : r.ID # id)

(* ... and the history of the other targets of the list *)
OtherHistoryKept(id) ==
    \A k \in 1..Len(cfg.Tasks) :
        cfg.Tasks[k].ID # id =>
            HistoryOf(history', cfg.Tasks[k].URL) = HistoryOf(history, cfg.Tasks[k].URL)

(* C32: RemoveTaskState(id, url) affects only the removed target: the       *)
(* TaskState, the history and the published Result of every other target   *)
(* id are unchanged by the call, also of targets with the same URL.         *)
C32_OnlyRemoved ==
    [][\A id \in 1..2 :
          RemoveStep(id) => (OthersKept(id) /\ OtherHistoryKept(id))]_vars

(* The TaskStates and the Results of the other ids are kept in every call   *)
C32_StatesAndResultsKept ==
    [][\A id \in 1..2 : RemoveStep(id) => OthersKept(id)]_vars

(* The history of the other targets is kept when they have other URLs       *)
C32_OtherURLsKept ==
    [][\A id \in 1..2 :
          RemoveStep(id) =>
              \A u \in (DOMAIN history \cup DOMAIN history')
                        \ {cpc.del[1].url} :
                  /\ u \in DOMAIN history
                  /\ u \in DOMAIN history'
                  /\ history'[u] = history[u]]_vars


----------------------------------------------------------------------------
(* Evaluation i of the log emitted an alert for its target, no later        *)
(* evaluation of that target emitted a recovery, and the TaskState has not  *)
(* been removed since                                                        *)
OpenAlert(lg, i) ==
    /\ lg[i].Alerts > 0
    /\ \A j \in (i + 1)..Len(lg) :
           lg[j].ID = lg[i].ID => (lg[j].Recoveries = 0 /\ lg[j].HadState)

(* C33: every alert is closed by a recovery: a target for which an alert    *)
(* has been emitted and no recovery since has IsDown = TRUE, so that the    *)
(* next successful sweep of it emits a recovery, also when the threshold    *)
(* setting is lowered or raised between sweeps.                              *)
C33_AlertsClosed ==
    \A i \in 1..Len(log) :
        (OpenAlert(log, i) /\ log[i].ID \in DOMAIN states)
            => states[log[i].ID].IsDown

(* The part of C33 that holds: a target that was down after the evaluation  *)
(* that emitted the alert stays down until its recovery, whatever the       *)
(* threshold becomes                                                         *)
C33_DownStaysDown ==
    \A i \in 1..Len(log) :
        (/\ OpenAlert(log, i)
         /\ log[i].ID \in DOMAIN states
         /\ log[i].After.IsDown)
            => states[log[i].ID].IsDown

(* An alert is emitted with IsDown = FALSE only by the repeat branch *)
C33_AlertWithoutDown ==
    \A i \in 1..Len(log) :
        (log[i].Alerts > 0 /\ ~log[i].After.IsDown)
            => log[i].After.ConsecutiveFails > log[i].Threshold


----------------------------------------------------------------------------
(* The scheduler loop on two tasks whose checks succeed or fail; the tasks  *)
(* have two names or one, AddTask taking any name that is not empty.        *)
InitName ==
    \E tasks \in {<<TaskA, TaskB>>, <<TaskA, TaskD>>} :
        InitWith(Config(tasks, 1, 0), NameSweeps)

NextName ==
    \/ Start
    \/ StartWait
    \/ Sweep(Sched)
    \/ \E k \in 1..2 : \E r \in {RespOk, RespErr} : checkURL(Sched, k, r)
    \/ Waiting /\ Tick(wakeAt - now)

SpecName == InitName /\ [][NextName]_vars

(* The target id whose evaluation stored row r of event_logs *)
OwnerOf(lg, r) == {lg[j].ID : j \in {i \in 1..Len(lg) : lg[i].AlertRow = r}}

(* Row r of event_logs is an unresolved alert that this step resolves *)
Resolved(r) ==
    /\ r \in 1..Len(events)
    /\ events[r].Type = AlertType
    /\ ~events[r].IsResolved
    /\ events'[r].IsResolved

(* The evaluation whose ResolveDownEvents call this step is *)
Resolving ==
    /\ pc[Sched] = "resolve"
    /\ pc'[Sched] # "resolve"
    /\ log[Len(log)].Recoveries = 1
    /\ log'[Len(log)].Resolves = 1

(* C34: a recovery of one target resolves only that target's alerts: the    *)
(* unresolved alerts emitted for another target id stay unresolved, also    *)
(* when the two targets have the same display name.                         *)
C34_OwnAlertsOnly ==
    [][\A r \in 1..Len(events) :
          Resolved(r) =>
              /\ Resolving
              /\ OwnerOf(log, r) = {log[Len(log)].ID}]_vars

(* The same for targets with different display names *)
C34_DistinctNames ==
    [][(\A i, j \in 1..Len(cfg.Tasks) :
            i # j => cfg.Tasks[i].Name # cfg.Tasks[j].Name)
          => \A r \in 1..Len(events) :
                 Resolved(r) =>
                     /\ Resolving
                     /\ OwnerOf(log, r) = {log[Len(log)].ID}]_vars

(* A recovery resolves the unresolved alerts of its own target *)
C34_OwnResolved ==
    [][Resolving
          => \A r \in 1..Len(events) :
                 (events[r].Type = AlertType
                  /\ OwnerOf(log, r) = {log[Len(log)].ID})
                     => events'[r].IsResolved]_vars

(* A recovery has resolved the alert of its target while the alert of the   *)
(* other target, which has another name, stayed open                         *)
C34_OtherOpen ==
    /\ cfg.Tasks[1].Name # cfg.Tasks[2].Name
    /\ Len(events) >= 3
    /\ \E r, q \in 1..Len(events) :
           /\ events[r].Type = AlertType /\ events[r].IsResolved
           /\ events[q].Type = AlertType /\ ~events[q].IsResolved
           /\ events[q].TaskName # events[r].TaskName


----------------------------------------------------------------------------
(* The scheduler loop and a manual trigger on two tasks whose checks end on *)
(* each path of checkURL: the first meets a URL that does not parse or an   *)
(* answer, the second a request that cannot be built or a transport error.  *)
(* Fairness: the lock is handed to a waiter, and the sweep that holds it    *)
(* goes on while it or one of its checks can take a step (the Go scheduler *)
(* runs a runnable goroutine, a check returns within the timeout of the    *)
(* HTTP client).  Nothing is assumed about the clock.                       *)
TermProcs == {Sched, 1}

InitTerm == InitProcs(Config(<<TaskA, TaskB>>, 1, 0), TermSweeps, TermProcs)

PathsOf(k) == IF k = 1 THEN {RespBadURL, RespOk} ELSE {RespBadReq, RespTimeout}

Check(p, k) == \E r \in PathsOf(k) : checkURL(p, k, r)

NextTerm ==
    \/ Start
    \/ StartWait
    \/ \E p \in TermProcs : TriggerNow(p)
    \/ \E p \in TermProcs : Sweep(p)
    \/ \E p \in TermProcs : \E k \in 1..2 : Check(p, k)
    \/ Waiting /\ Tick(wakeAt - now)

(* A step of the goroutine that holds the lock, or of one of its checks *)
InSweep(p) ==
    \/ runBatchBegin(p)
    \/ runBatchCollect(p)
    \/ runBatchPublish(p)
    \/ runOnceUnlock(p)
    \/ \E k \in 1..2 : Check(p, k)

FairTerm ==
    /\ WF_vars(Start)
    /\ WF_vars(StartWait)
    /\ \A p \in TermProcs : SF_vars(runOnceLock(p))
    /\ WF_vars(\E p \in TermProcs : InSweep(p))

SpecTerm == InitTerm /\ [][NextTerm]_vars /\ FairTerm

(* The checkURL goroutines of the sweep of p that have returned *)
Returned(p) == (1..Len(loc[p].tasks)) \ loc[p].pending

(* C35: every sweep terminates: each probe sends exactly one result on the  *)
(* channel of its sweep on every path, the collector receives exactly as    *)
(* many results as there are targets, and under fairness every started      *)
(* sweep publishes its snapshot and releases the sweep lock.                *)
C35_SweepsTerminate ==
    /\ [](\A p \in TermProcs :
              pc[p] = "collect" =>
                  Len(loc[p].ch) + Len(loc[p].newResults) = Cardinality(Returned(p)))
    /\ [][\A p \in TermProcs : \A k \in 1..2 :
              Check(p, k) =>
                  /\ Len(loc'[p].ch) = Len(loc[p].ch) + 1
                  /\ loc'[p].ch[Len(loc'[p].ch)].ID = loc[p].tasks[k].ID
                  /\ k \notin loc'[p].pending]_vars
    /\ [](\A p \in TermProcs :
              pc[p] = "unlock" =>
                  /\ runMu = p
                  /\ Len(loc[p].newResults) = Len(loc[p].tasks)
                  /\ loc[p].ch = <<>>
                  /\ loc[p].pending = {}
                  /\ results = loc[p].newResults)
    /\ [][\A p \in TermProcs :
              (runMu = p /\ runMu' # p) => (pc[p] = "unlock" /\ runMu' = NoProc)]_vars
    /\ <>[](/\ runMu = NoProc
            /\ \A p \in TermProcs : pc[p] \in {"idle", "wait", "loop", "done"}
            /\ Len(log) = 2 * (TermSweeps - budget)
            /\ Len(results) = 2)

(* Two sweeps have published, one of them triggered, and the checks ended   *)
(* on each of the four paths                                                 *)
C35_Witness ==
    /\ Len(log) = 2 * TermSweeps
    /\ \A p \in TermProcs : pc[p] \in {"idle", "wait", "loop", "done"}
    /\ runMu = NoProc
    /\ \E i \in 1..Len(log) : log[i].Proc # Sched
    /\ \A r \in PathsOf(1) \cup PathsOf(2) :
           \E i \in 1..Len(probes) : probes[i].Resp = r


----------------------------------------------------------------------------
(* The engine with s.mu spelled out: the scheduler loop and a manual        *)
(* trigger on one task whose checks fail, while handlers call Results and   *)
(* RemoveTaskState of that task; the timer of the loop does not fire.       *)
(* Fairness: a goroutine that is in a critical section of s.mu leaves it,   *)
(* and s.mu is handed to a waiter.  Nothing is assumed about the checks,    *)
(* the calls to the repository, the sweep lock or the clock: a check or a   *)
(* call to the repository may never return.                                  *)
InitLocks == InitCalls(Config(<<TaskA>>, 1, 0), LockSweeps, TermProcs, LockCalls)

LockSweep(p) ==
    \/ runOnceLock(p)
    \/ runBatchBegin(p)
    \/ runBatchCollect(p)
    \/ runBatchPublish(p)
    \/ runOnceUnlock(p)

NextLocks ==
    \/ Start
    \/ \E p \in TermProcs : TriggerNow(p)
    \/ \E p \in TermProcs : LockSweep(p)
    \/ \E p \in TermProcs : checkURL(p, 1, RespErr)
    \/ \E c \in {"reader", "remover"} : CallBegin(c)
    \/ ResultsRLock
    \/ ResultsReturn
    \/ RemoveLock
    \/ RemoveReturn(1, "u1")

FairLocks ==
    /\ \A p \in TermProcs : WF_vars(runBatchUpdate(p))
    /\ WF_vars(ResultsReturn)
    /\ WF_vars(RemoveReturn(1, "u1"))
    /\ SF_vars(ResultsRLock)
    /\ SF_vars(RemoveLock)

SpecLocks == InitLocks /\ [][NextLocks]_vars /\ FairLocks

(* Goroutine p waits: for the sweep lock, for a result of a check, for the  *)
(* data lock, or for a call to the repository or to the mailer to return    *)
Blocked(p) ==
    \/ pc[p] \in {"lock", "batch", "mulock"}
    \/ pc[p] = "collect" /\ Len(loc[p].newResults) < Len(loc[p].tasks)
    \/ pc[p] \in {"alert", "recover", "resolve"}

(* C36: the engine cannot deadlock on its two locks: the data lock is never *)
(* held by a goroutine that waits for the sweep lock, for a probe or for a  *)
(* collaborator call, so every Results and RemoveTaskState call returns in  *)
(* the end, also while a sweep waits for slow probes.                       *)
C36_NoDeadlock ==
    /\ [](\A p \in TermProcs :
              /\ Blocked(p) => mu.w # p
              /\ mu.w = p => (runMu = p /\ pc[p] = "stamp"))
    /\ [](mu.w = Remover <=> cpc.remover = "in")
    /\ [](mu.r = (IF cpc.reader = "in" THEN 1 ELSE 0))
    /\ [](mu.w # NoProc => mu.r = 0)
    /\ (cpc.reader = "lock") ~> (cpc.reader = "idle")
    /\ (cpc.remover = "lock") ~> (cpc.remover = "idle")

(* Results and RemoveTaskState have returned while a sweep was waiting for  *)
(* its probe and a manual trigger was waiting for the sweep lock            *)
C36_Witness ==
    /\ cpc.left = [reader |-> 0, remover |-> 0]
    /\ cpc.reader = "idle"
    /\ cpc.remover = "idle"
    /\ pc[Sched] = "collect"
    /\ loc[Sched].newResults = <<>>
    /\ loc[Sched].ch = <<>>
    /\ loc[Sched].pending # {}
    /\ pc[1] = "lock"
    /\ 1 \in fresh

-----------------------------------------------------------------------------
(* The configuration manager with a configuration file whose write may fail: *)
(* every mutator assigns m.cfg and then returns the error of saveLocked.     *)
SaveIds == 1..3

InitSave == InitWith(LoadOrDefault(SavedFile), 0)

NextSave ==
    \/ \E in \in AddInputs : \E ok \in BOOLEAN : CallAddTask(in, ok)
    \/ \E id \in SaveIds : \E ok \in BOOLEAN : CallDeleteTask(id, ok)
    \/ \E in \in SettingsInputs : \E ok \in BOOLEAN : UpdateSettings(in, ok)
    \/ \E id \in SaveIds : \E ok \in BOOLEAN : CallToggleStar(id, ok)

SpecSave == InitSave /\ [][NextSave]_vars

(* A task of the configuration has the id *)
HasTask(c, id) == \E i \in 1..Len(c.Tasks) : c.Tasks[i].ID = id

(* C37: configuration mutations are all-or-nothing: when AddTask,           *)
(* DeleteTask, UpdateSettings or ToggleStar returns an error (an input that *)
(* is rejected, an id that no task has, or a configuration file that cannot *)
(* be written), the configuration in memory is the same as before the call, *)
(* the task list and NextTaskID included.                                    *)
C37_AllOrNothing ==
    [][/\ \A in \in AddInputs : \A ok \in BOOLEAN :
            CallAddTask(in, ok) /\ (AddTaskRejects(in) \/ ~ok) => cfg' = cfg
       /\ \A id \in SaveIds : CallDeleteTask(id, FALSE) => cfg' = cfg
       /\ \A in \in SettingsInputs : UpdateSettings(in, FALSE) => cfg' = cfg
       /\ \A id \in SaveIds : \A ok \in BOOLEAN :
            CallToggleStar(id, ok) /\ (~HasTask(cfg, id) \/ ~ok) => cfg' = cfg]_vars

(* C37, the part about the task list and the id counter: a mutator whose    *)
(* write fails leaves the task list and NextTaskID as they were.            *)
C37_TasksAndCounterKept ==
    [][/\ \A in \in AddInputs : CallAddTask(in, FALSE) =>
            cfg'.Tasks = cfg.Tasks /\ cfg'.NextTaskID = cfg.NextTaskID
       /\ \A id \in SaveIds : CallDeleteTask(id, FALSE) => cfg'.Tasks = cfg.Tasks
       /\ \A id \in SaveIds : CallToggleStar(id, FALSE) => cfg'.Tasks = cfg.Tasks]_vars

(* C37, the errors found before m.cfg is assigned: an AddTask whose input   *)
(* is rejected and a ToggleStar of an id that no task has leave the         *)
(* configuration in memory and the file as they were.                       *)
C37_RejectedKeeps ==
    [][/\ \A in \in AddInputs : \A ok \in BOOLEAN :
            CallAddTask(in, ok) /\ AddTaskRejects(in) => cfg' = cfg /\ disk' = disk
       /\ \A id \in SaveIds : \A ok \in BOOLEAN :
            CallToggleStar(id, ok) /\ ~HasTask(cfg, id) => cfg' = cfg /\ disk' = disk]_vars

(* C37: a write that succeeds makes the file the configuration in memory;  *)
(* after one that fails the file is as it was, empty, cut short, or the     *)
(* configuration in memory.                                                  *)
C37_FileAfterWrite ==
    [][/\ \A in \in AddInputs :
            CallAddTask(in, TRUE) /\ ~AddTaskRejects(in) => disk' = <<cfg'>>
       /\ \A id \in SaveIds : CallDeleteTask(id, TRUE) => disk' = <<cfg'>>
       /\ \A in \in SettingsInputs : UpdateSettings(in, TRUE) => disk' = <<cfg'>>
       /\ \A id \in SaveIds :
            CallToggleStar(id, TRUE) /\ HasTask(cfg, id) => disk' = <<cfg'>>
       /\ disk' # disk =>
            \/ disk' = <<cfg'>>
            \/ ~Unmarshals(disk') /\ LoadOrDefault(disk') = ZeroConfig]_vars

(* A mutator has returned the error of a write that left the file cut      *)
(* short, and the configuration in memory has the task it added             *)
C37_FileCut ==
    /\ disk = ShortFile(cfg)
    /\ Len(cfg.Tasks) = 3

====
